---- MODULE Spec2Model ----
(***************************************************************************)
(* Conversation state machine of the family-law assistant.                 *)
(*                                                                         *)
(* One session is driven through chat_stream (src/main.py): every request  *)
(* loads the persisted history, rebuilds the graph state, runs one         *)
(* traversal of the LangGraph workflow of src/graph.py                     *)
(*   preprocess -> analyze_query -> {clarify | gather_info | retrieve}     *)
(*   gather_info -> {ask_question | revalidate | retrieve}                 *)
(*   revalidate -> {retrieve | gather_info},  retrieve -> generate -> END  *)
(* and saves the history again.  The LLM backends (analyzer, extractor,    *)
(* question generator, generator), the vector store and the user are the   *)
(* environment: their outputs are drawn from small sets.                   *)
(*                                                                         *)
(* Spec is one session served request after request.  SpecRequests is two *)
(* requests in flight together, each a load / traversal / save sequence.   *)
(* SpecCalls is one call of a helper function (_extract_information,       *)
(* analyze_query, _normalize_gender, gather_next_information) or of a node *)
(* (analyze_query_node, revalidate_information_node) for every argument    *)
(* and backend outcome.                                                    *)
(*                                                                         *)
(* Texts are strings; a fact value is a sequence of lines (the text is the *)
(* lines joined by "\n"), so that appending a reply to additional_info is  *)
(* an append of a line.                                                    *)
(***************************************************************************)
EXTENDS Integers, Sequences, FiniteSets, TLC

VARIABLES
    history,               \* the session's history file: messages + state snapshot
    messages,              \* chat_stream: the message list of the running request
    state,                 \* the graph state threaded through the nodes
    pc,                    \* the node about to run ("idle" between requests)
    trace,                 \* nodes executed in the running request, in order
    response,              \* analyze_query_node: the analyzer result of this request
    additional_info_needed,\* revalidate_information_node: keys the re-analysis returned
    accumulated_response,  \* chat_stream: the text delivered to the caller
    turn,                  \* number of requests started in the session
    reopened,              \* number of times revalidation reopened gathering (session)
    faults,                \* number of backend failures so far in the session
    asked,                 \* targets of the questions emitted so far, one per request
    files,                 \* history_dir: the history file of every conversation id
    requests,              \* concurrent chat_stream requests: position and locals of each
    now,                   \* datetime.now(), in seconds
    call                   \* one call of a helper function: arguments and result

vars == << history, messages, state, pc, trace, response, additional_info_needed,
           accumulated_response, turn, reopened, faults, asked, files, requests, now,
           call >>

----------------------------------------------------------------------------
(* Bounds of the model *)

MaxTurns == 3

MaxFaults == 1

MaxClock == 1

(* Program constants *)

MaxRevalidations == 2
MaxFactsCollected == 10

----------------------------------------------------------------------------
(* Values *)

None == "<None>"
Absent == "<absent>"
Raise == "<raise>"
NOT_PROVIDED == "NOT_PROVIDED"

EmptyInfo == [k \in {} |-> <<>>]

Put(info, k, v) == [x \in (DOMAIN info) \cup {k} |-> IF x = k THEN v ELSE info[x]]

(* mutant: the returned facts replace the collected ones *)
Update_m(info, new) == new

(* dict.update *)
Update(info, new) ==
    [x \in (DOMAIN info) \cup (DOMAIN new) |-> IF x \in DOMAIN new THEN new[x] ELSE info[x]]

Range(s) == {s[i] : i \in 1..Len(s)}

NoDuplicates(s) == \A i, j \in 1..Len(s) : i # j => s[i] # s[j]

RECURSIVE RemoveFirst(_, _)
RemoveFirst(s, x) ==
    IF s = <<>> THEN <<>>
    ELSE IF Head(s) = x THEN Tail(s)
    ELSE <<Head(s)>> \o RemoveFirst(Tail(s), x)

(* every ordering of the elements of a finite set *)
RECURSIVE Orderings(_)
Orderings(S) ==
    IF S = {} THEN {<<>>}
    ELSE UNION {{<<x>> \o t : t \in Orderings(S \ {x})} : x \in S}

----------------------------------------------------------------------------
(* The environment: what the user types and what the backends answer *)

Queries == {"I want a divorce"}

Replies == {"I am the wife", "yes"}

(* what the user sends in request number n of the session *)
UserTexts(n) == IF n = 1 THEN Queries ELSE Replies

FillerKeys == {"f1", "f2", "f3", "f4", "f5", "f6", "f7", "f8", "f9"}

BigInfo == [k \in FillerKeys \cup {"marriage_mentioned"} |-> <<"yes">>]

AnalyzerIntents == {None, "", "divorce"}

(* facts found and keys still missing, as the analyzer backend reports    *)
(* them; nothing keeps the backend from listing a key twice or from       *)
(* listing a key it also reports as found                                 *)
AnalyzerFindings ==
    { [info_collected |-> EmptyInfo, info_needed_list |-> <<>>],
      [info_collected |-> EmptyInfo, info_needed_list |-> <<"marriage_date">>],
      [info_collected |-> [k \in {"user_gender"} |-> <<"female">>],
       info_needed_list |-> <<"user_gender", "marriage_date">>],
      [info_collected |-> [k \in {"marriage_date"} |-> <<"2019">>],
       info_needed_list |-> <<"marriage_date", "marriage_date">>],
      [info_collected |-> BigInfo, info_needed_list |-> <<"marriage_date">>] }

(* the dict QueryAnalyzer.analyze_query returns *)
AnalyzerResponses ==
    { [ user_intent |-> i,
        info_collected |-> f.info_collected,
        info_needed_list |-> f.info_needed_list,
        has_sufficient_info |-> b ] :
      i \in AnalyzerIntents, f \in AnalyzerFindings, b \in BOOLEAN }

NoResponse == [none |-> TRUE]

(* extracted_answer values the extraction backend returns, or it raises *)
ExtractorOutcomes == {"2020", NOT_PROVIDED, "", Raise}

QuestionOutcomes == {"ok", Raise}

(* retrieve_documents: the search returns hits, returns none, is not made  *)
(* because the collection failed to load at import, or raises              *)
RetrieverOutcomes == {"chunks", "empty", "unavailable", Raise}

GeneratorOutcomes == {"ok", Raise}

----------------------------------------------------------------------------
(* Texts.  Substring tests and lengths of the texts of the model are       *)
(* tabulated: WordsIn(t) is the set of indicator words that occur in       *)
(* t.lower(), FirstChar(t) is t.lower().strip()[0].                        *)

GenderQuestion == "Are you the husband or the wife?"

LLMQuestion(target) ==
    CASE target = "user_gender" -> GenderQuestion
      [] target = "marriage_date" -> "When did you get married?"
      [] target = "children_details" -> "Do you have children?"
      [] OTHER -> "Could you tell me more?"

FallbackQuestion(target) ==
    CASE target = "user_gender" -> "Could you please provide information about your user gender?"
      [] target = "marriage_date" -> "Could you please provide information about your marriage date?"
      [] target = "children_details" -> "Could you please provide information about your children details?"
      [] OTHER -> "Could you please provide information about your situation?"

WordsIn(text) ==
    CASE text = "I am the wife" -> {"wife", "he"}
      [] text = "female" -> {"female", "male"}
      [] text = "male" -> {"male"}
      [] text = "wife" -> {"wife"}
      [] text = "yes" -> {"yes"}
      [] text = "he hit me" -> {"he"}
      [] text = GenderQuestion -> {"husband", "wife", "he"}
      [] text = "When did you get married?" -> {"he"}
      [] text = "Do you have children?" -> {}
      [] OTHER -> {}

FirstChar(text) ==
    CASE text = "female" -> "f"
      [] text = "male" -> "m"
      [] text = "wife" -> "w"
      [] text = "yes" -> "y"
      [] text = "2020" -> "2"
      [] text = "2019" -> "2"
      [] text = "he hit me" -> "h"
      [] text = "not sure" -> "n"
      [] text = "maybe" -> "m"
      [] text = "f" -> "f"
      [] OTHER -> "i"

TextLen(text) ==
    CASE text = "" -> 0
      [] text = "f" -> 1
      [] text = "yes" -> 3
      [] text = "2020" -> 4
      [] text = "2019" -> 4
      [] text = "male" -> 4
      [] text = "wife" -> 4
      [] text = "maybe" -> 5
      [] text = "female" -> 6
      [] text = "not sure" -> 8
      [] text = "he hit me" -> 9
      [] text = "I am the wife" -> 13
      [] OTHER -> 16

(* str.lstrip() *)
LStrip(text) ==
    CASE text = " 2020 " -> "2020 "
      [] text = " 2020" -> "2020"
      [] text = " " -> ""
      [] OTHER -> text

(* str.rstrip() *)
RStrip(text) ==
    CASE text = " 2020 " -> " 2020"
      [] text = "2020 " -> "2020"
      [] text = " " -> ""
      [] OTHER -> text

(* str.strip() *)
Strip(text) == LStrip(RStrip(text))

RECURSIVE DropBlankHead(_)
DropBlankHead(lines) ==
    IF lines = <<>> THEN <<>>
    ELSE IF Strip(Head(lines)) = "" THEN DropBlankHead(Tail(lines))
    ELSE lines

RECURSIVE DropBlankTail(_)
DropBlankTail(lines) ==
    IF lines = <<>> THEN <<>>
    ELSE IF Strip(lines[Len(lines)]) = ""
    THEN DropBlankTail(SubSeq(lines, 1, Len(lines) - 1))
    ELSE lines

(* str.strip() of the text whose lines are given: the blank lines at both  *)
(* ends go, the first line loses its leading and the last line its         *)
(* trailing whitespace                                                     *)
StripLines(lines) ==
    LET kept == DropBlankTail(DropBlankHead(lines))
        n == Len(kept)
    IN  IF n = 0 THEN <<>>
        ELSE IF n = 1 THEN <<Strip(kept[1])>>
        ELSE <<LStrip(kept[1])>> \o SubSeq(kept, 2, n - 1) \o <<RStrip(kept[n])>>

(* InformationGatherer._normalize_gender; Raise is the IndexError of text_lower[0] *)
normalize_gender(text) ==
    IF WordsIn(text) \cap {"wife", "woman", "female", "girl", "she", "her"} # {} THEN "female"
    ELSE IF WordsIn(text) \cap {"husband", "man", "male", "boy", "he", "him"} # {} THEN "male"
    ELSE IF TextLen(Strip(text)) = 0 THEN Raise
    ELSE IF FirstChar(Strip(text)) = "f" THEN "female"
    ELSE IF FirstChar(Strip(text)) = "m" THEN "male"
    ELSE text

(* mutant: a failing backend yields NOT_PROVIDED instead of the reply *)
llm_extraction_m(user_response, info_target, llm) ==
    IF llm = Raise THEN NOT_PROVIDED
    ELSE IF info_target = "user_gender" /\ llm # NOT_PROVIDED
         THEN IF normalize_gender(llm) = Raise THEN Strip(user_response)
              ELSE normalize_gender(llm)
         ELSE llm

(* the LLM part of _extract_information (its try block): the backend's     *)
(* extracted_answer, normalised for a gender target; any exception in the  *)
(* block yields the raw reply                                              *)
llm_extraction(user_response, info_target, llm) ==
    IF llm = Raise THEN Strip(user_response)
    ELSE IF info_target = "user_gender" /\ llm # NOT_PROVIDED
         THEN IF normalize_gender(llm) = Raise THEN Strip(user_response)
              ELSE normalize_gender(llm)
         ELSE llm

(* InformationGatherer._extract_information; Raise is an exception that    *)
(* leaves the function (last_question.lower() on a None question)          *)
extract_information(last_question, user_response, info_target, llm) ==
    IF info_target = "user_gender"
       /\ WordsIn(user_response) \cap {"wife", "woman", "female", "girl", "she"} # {}
    THEN "female"
    ELSE IF info_target = "user_gender"
            /\ WordsIn(user_response) \cap {"husband", "man", "male", "boy", "he"} # {}
    THEN "male"
    ELSE IF "yes" \in WordsIn(user_response) /\ TextLen(Strip(user_response)) < 10
    THEN IF last_question = None THEN Raise
         ELSE IF "wife" \in WordsIn(last_question) THEN "wife"
         ELSE IF "female" \in WordsIn(last_question) THEN "female"
         ELSE llm_extraction(user_response, info_target, llm)
    ELSE llm_extraction(user_response, info_target, llm)

(* _extract_information reaches its LLM call: no quick pattern returned    *)
(* before it                                                               *)
ExtractorCallsLLM(last_question, user_response, info_target) ==
    /\ ~( info_target = "user_gender"
          /\ WordsIn(user_response) \cap {"wife", "woman", "female", "girl", "she",
                                          "husband", "man", "male", "boy", "he"} # {} )
    /\ ~( /\ "yes" \in WordsIn(user_response) /\ TextLen(Strip(user_response)) < 10
          /\ \/ last_question = None
             \/ WordsIn(last_question) \cap {"wife", "female"} # {} )

(* InformationGatherer._generate_question; Raise is user_intent.replace on *)
(* a None intent, which is outside the try block                           *)
generate_question(user_intent, current_target, llm) ==
    IF user_intent = None THEN Raise
    ELSE IF llm = Raise THEN FallbackQuestion(current_target)
    ELSE LLMQuestion(current_target)

----------------------------------------------------------------------------
(* InformationGatherer.gather_next_information (information_gatherer.py)   *)

IsHuman(m) == m.role = "HumanMessage"

Raised == [raised |-> TRUE]

(* mutant: the done result counts a step *)
GatherDone_m(info_collected, gathering_step) ==
    [ raised |-> FALSE,
      needs_more_info |-> FALSE,
      follow_up_question |-> None,
      info_collected |-> info_collected,
      info_needed_list |-> <<>>,
      gathering_step |-> gathering_step + 1,
      current_question_target |-> None ]

(* the two return shapes of gather_next_information *)
GatherDone(info_collected, gathering_step) ==
    [ raised |-> FALSE,
      needs_more_info |-> FALSE,
      follow_up_question |-> None,
      info_collected |-> info_collected,
      info_needed_list |-> <<>>,
      gathering_step |-> gathering_step,
      current_question_target |-> None ]

(* mutant: the question is emitted without counting a step *)
GatherAsk_m(st, info_collected, info_needed_list, gathering_step, next_target, q_llm) ==
    IF generate_question(st.user_intent, next_target, q_llm) = Raise THEN Raised
    ELSE
    [ raised |-> FALSE,
      needs_more_info |-> TRUE,
      follow_up_question |-> generate_question(st.user_intent, next_target, q_llm),
      info_collected |-> info_collected,
      info_needed_list |-> info_needed_list,
      gathering_step |-> gathering_step,
      current_question_target |-> next_target ]

(* STEP 3, lines 176-193: the question for next_target *)
GatherAsk(st, info_collected, info_needed_list, gathering_step, next_target, q_llm) ==
    IF generate_question(st.user_intent, next_target, q_llm) = Raise THEN Raised
    ELSE
    [ raised |-> FALSE,
      needs_more_info |-> TRUE,
      follow_up_question |-> generate_question(st.user_intent, next_target, q_llm),
      info_collected |-> info_collected,
      info_needed_list |-> info_needed_list,
      gathering_step |-> gathering_step + 1,
      current_question_target |-> next_target ]

(* mutant: an unanswered reply replaces what additional_info held *)
StoreAnswer_m(info_collected, info_needed_list, target, value, reply) ==
    IF value # "" /\ value # NOT_PROVIDED
    THEN [ info_collected |->
             Put(info_collected, target,
                 <<IF target = "user_gender" THEN normalize_gender(value) ELSE value>>),
           info_needed_list |-> RemoveFirst(info_needed_list, target) ]
    ELSE [ info_collected |->
             Put(info_collected, "additional_info", StripLines(<<reply>>)),
           info_needed_list |-> info_needed_list ]

(* STEP 1, "store the answer": what one extracted value does to            *)
(* info_collected and info_needed_list                                     *)
StoreAnswer(info_collected, info_needed_list, current_target, extracted, reply) ==
    IF extracted # "" /\ extracted # NOT_PROVIDED
    THEN [ info_collected |->
             Put(info_collected, current_target,
                 <<IF current_target = "user_gender"
                   THEN normalize_gender(extracted) ELSE extracted>>),
           info_needed_list |-> RemoveFirst(info_needed_list, current_target) ]
    ELSE [ info_collected |->
             Put(info_collected, "additional_info",
                 StripLines((IF "additional_info" \in DOMAIN info_collected
                             THEN info_collected["additional_info"] ELSE <<>>)
                            \o <<reply>>)),
           info_needed_list |-> info_needed_list ]

(* STEP 1 is entered and finds the reply: lines 105 and 111 *)
ExtractionAttempted(st, msgs) ==
    /\ st.gathering_step > 0
    /\ st.info_needed_list # <<>>
    /\ Len(SelectSeq(msgs, IsHuman)) > st.gathering_step

(* gather_next_information, line 112: the user message handed to the       *)
(* extractor                                                               *)
last_user_msg(st, msgs) == SelectSeq(msgs, IsHuman)[st.gathering_step + 1]

(* gather_next_information, line 106 *)
current_target(st) ==
    IF st.current_question_target # None
    THEN st.current_question_target
    ELSE Head(st.info_needed_list)

(* gather_next_information, lines 120-124: what _extract_information gives *)
(* for the reply                                                           *)
extracted(st, msgs, e_llm) ==
    extract_information(st.follow_up_question, last_user_msg(st, msgs).content,
                        current_target(st), e_llm)

(* STEP 1: [raised, info_collected, info_needed_list] after the extraction *)
ExtractStep(st, msgs, e_llm) ==
    IF ExtractionAttempted(st, msgs)
    THEN IF extracted(st, msgs, e_llm) = Raise THEN Raised
         ELSE [raised |-> FALSE] @@
              StoreAnswer(st.info_collected, st.info_needed_list,
                          current_target(st), extracted(st, msgs, e_llm),
                          last_user_msg(st, msgs).content)
    ELSE [ raised |-> FALSE,
           info_collected |-> st.info_collected,
           info_needed_list |-> st.info_needed_list ]

(* STEP 2 and STEP 3 on the lists STEP 1 left *)
QuestionStep(st, info_collected, info_needed_list, q_llm) ==
    IF info_needed_list = <<>>
    THEN GatherDone(info_collected, st.gathering_step)
    ELSE IF Head(info_needed_list) = "user_gender" /\ "user_gender" \in DOMAIN info_collected
    THEN LET rest == RemoveFirst(info_needed_list, "user_gender")
         IN  IF rest = <<>>
             THEN GatherDone(info_collected, st.gathering_step)
             ELSE GatherAsk(st, info_collected, rest, st.gathering_step, Head(rest), q_llm)
    ELSE GatherAsk(st, info_collected, info_needed_list, st.gathering_step,
                   Head(info_needed_list), q_llm)

gather_next_information(st, msgs, e_llm, q_llm) ==
    LET s1 == ExtractStep(st, msgs, e_llm)
    IN  IF s1.raised THEN Raised
        ELSE QuestionStep(st, s1.info_collected, s1.info_needed_list, q_llm)

----------------------------------------------------------------------------
(* The nodes of the graph (graph.py, update_handler.py)                    *)

ClarificationText == "Could you please provide more details about your legal situation?"

NoChunksText == "I apologize, but I couldn't find sufficient relevant information"

GenerationErrorText == "I apologize, but I encountered an error while generating advice"

AdviceText == "Here is the legal advice for your situation"

Falsy(x) == x \in {None, ""}

(* handle_update, lines 173-187: the classes that set is_update = True *)
IsUpdateIntent(intent_type) == intent_type \in {"new_info_addition", "correction"}

(* UpdateHandler.handle_update: a follow-up is classified only when the    *)
(* state carries a previous response                                       *)
handle_update(st, msgs, intent_type) ==
    LET has_previous_response == Len(msgs) > 2 /\ ~Falsy(st.response)
    IN  IF ~has_previous_response THEN st
        ELSE IF IsUpdateIntent(intent_type)
             THEN [st EXCEPT !.is_update = TRUE, !.analysis_complete = FALSE]
        ELSE IF intent_type \in {"clarification_request", "doubt_about_response"}
             THEN [st EXCEPT !.is_update = FALSE, !.needs_clarification = TRUE]
        ELSE IF intent_type = "new_question"
             THEN [st EXCEPT !.is_update = FALSE, !.analysis_complete = FALSE]
        ELSE st

IntentTypes == {"new_info_addition", "correction", "clarification_request",
                "doubt_about_response", "new_question"}

(* mutant: a finished analysis does not make the node skip *)
AnalysisSkipped_m(st) ==
    /\ ~st.revalidation_mode
    /\ st.in_gathering_phase

(* analyze_query_node, lines 34-44: the analysis is skipped *)
AnalysisSkipped(st) ==
    /\ ~st.revalidation_mode
    /\ \/ st.in_gathering_phase
       \/ st.analysis_complete /\ ~st.is_update

(* response.get("intent_confidence", "high") *)
IntentConfidence(resp) ==
    IF "intent_confidence" \in DOMAIN resp THEN resp.intent_confidence ELSE "high"

(* analyze_query_node, line 81 *)
IsLowConfidence(resp) ==
    IntentConfidence(resp) = "low" \/ Falsy(resp.user_intent)

(* analyze_query_node, lines 85-96: the phase flags of a confident analysis *)
SetPhaseAfterAnalysis(st, is_update) ==
    LET s2 == [st EXCEPT !.needs_clarification = FALSE,
                         !.root_query = IF ~is_update /\ ~Falsy(st.user_intent)
                                        THEN st.query ELSE @]
    IN  IF s2.info_needed_list = <<>>
        THEN [s2 EXCEPT !.has_sufficient_info = TRUE, !.in_gathering_phase = FALSE]
        ELSE [s2 EXCEPT !.in_gathering_phase = TRUE, !.gathering_step = 0]

(* analyze_query_node; resp = Raised is an exception inside its try block *)
analyze_query_node(st, resp) ==
    IF AnalysisSkipped(st) THEN st
    ELSE LET s0 == [st EXCEPT !.revalidation_mode = FALSE]
         IN  IF resp = Raised
             THEN [s0 EXCEPT !.has_sufficient_info = TRUE,
                             !.analysis_complete = TRUE,
                             !.in_gathering_phase = FALSE]
             ELSE LET s1 == [s0 EXCEPT
                        !.user_intent = resp.user_intent,
                        !.info_needed_list = resp.info_needed_list,
                        !.has_sufficient_info = resp.has_sufficient_info,
                        !.info_collected = IF st.is_update
                                           THEN Update(st.info_collected, resp.info_collected)
                                           ELSE resp.info_collected,
                        !.analysis_complete = TRUE]
                  IN  [ (IF IsLowConfidence(resp)
                         THEN [s1 EXCEPT !.needs_clarification = TRUE]
                         ELSE SetPhaseAfterAnalysis(s1, st.is_update))
                        EXCEPT !.is_update = FALSE ]

(* mutant: the except branch leaves has_sufficient_info as it was *)
gather_information_node_m(st, g) ==
    IF g.raised
    THEN [st EXCEPT !.in_gathering_phase = FALSE,
                    !.needs_more_info = FALSE]
    ELSE LET s1 == [st EXCEPT
                      !.info_collected = g.info_collected,
                      !.info_needed_list = g.info_needed_list,
                      !.follow_up_question = g.follow_up_question,
                      !.needs_more_info = g.needs_more_info,
                      !.gathering_step = g.gathering_step,
                      !.current_question_target = g.current_question_target]
         IN  IF ~s1.needs_more_info
             THEN [s1 EXCEPT !.has_sufficient_info = TRUE,
                             !.in_gathering_phase = FALSE,
                             !.revalidation_mode = TRUE]
             ELSE s1

(* mutant: the except branch also gives up the pending question *)
gather_information_node_dropping(st, g) ==
    IF g.raised
    THEN [st EXCEPT !.has_sufficient_info = TRUE,
                    !.in_gathering_phase = FALSE,
                    !.needs_more_info = FALSE,
                    !.current_question_target = None]
    ELSE LET s1 == [st EXCEPT
                      !.info_collected = g.info_collected,
                      !.info_needed_list = g.info_needed_list,
                      !.follow_up_question = g.follow_up_question,
                      !.needs_more_info = g.needs_more_info,
                      !.gathering_step = g.gathering_step,
                      !.current_question_target = g.current_question_target]
         IN  IF ~s1.needs_more_info
             THEN [s1 EXCEPT !.has_sufficient_info = TRUE,
                             !.in_gathering_phase = FALSE,
                             !.revalidation_mode = TRUE]
             ELSE s1

(* gather_information_node; g is what gather_next_information returned *)
gather_information_node(st, g) ==
    IF g.raised
    THEN [st EXCEPT !.has_sufficient_info = TRUE,
                    !.in_gathering_phase = FALSE,
                    !.needs_more_info = FALSE]
    ELSE LET s1 == [st EXCEPT
                      !.info_collected = g.info_collected,
                      !.info_needed_list = g.info_needed_list,
                      !.follow_up_question = g.follow_up_question,
                      !.needs_more_info = g.needs_more_info,
                      !.gathering_step = g.gathering_step,
                      !.current_question_target = g.current_question_target]
         IN  IF ~s1.needs_more_info
             THEN [s1 EXCEPT !.has_sufficient_info = TRUE,
                             !.in_gathering_phase = FALSE,
                             !.revalidation_mode = TRUE]
             ELSE s1

(* mutant: the attempt cap compared with > instead of >= *)
RevalidationCapReached_m(st) ==
    \/ st.revalidation_count > MaxRevalidations
    \/ Cardinality(DOMAIN st.info_collected) >= MaxFactsCollected

(* revalidate_information_node, line 162 *)
RevalidationCapReached(st) ==
    \/ st.revalidation_count >= MaxRevalidations
    \/ Cardinality(DOMAIN st.info_collected) >= MaxFactsCollected

(* mutant: the returned keys appended without removing duplicates *)
MergedLists_m(current, additional) == {current \o additional}

(* revalidate_information_node, lines 198-200: list(set(current) | additional); *)
(* the order of a list built from a set of strings is not fixed            *)
MergedLists(current, additional) ==
    Orderings(Range(current) \cup Range(additional))

(* revalidate_information_node, lines 164-167 and 211-214 *)
ProceedToRetrieval(st) ==
    [st EXCEPT !.has_sufficient_info = TRUE,
               !.in_gathering_phase = FALSE,
               !.needs_more_info = FALSE,
               !.revalidation_mode = FALSE]

(* mutant: reopening gathering does not count an attempt *)
ResumeGathering_m(st, merged) ==
    [st EXCEPT !.info_needed_list = merged,
               !.in_gathering_phase = TRUE,
               !.needs_more_info = TRUE,
               !.has_sufficient_info = FALSE,
               !.revalidation_mode = FALSE]

(* revalidate_information_node, lines 193-208 *)
ResumeGathering(st, merged) ==
    [st EXCEPT !.info_needed_list = merged,
               !.in_gathering_phase = TRUE,
               !.needs_more_info = TRUE,
               !.has_sufficient_info = FALSE,
               !.revalidation_mode = FALSE,
               !.revalidation_count = @ + 1]

(* revalidate_information_node, lines 170-178: the composite query handed  *)
(* to the analyzer, the original query followed by the collected facts     *)
synthetic_query(st) ==
    [ original_query |-> IF st.root_query = Absent THEN "" ELSE st.root_query,
      info_context |-> st.info_collected ]

(* mutant: the facts and the intent of the re-analysis are written to the  *)
(* state                                                                   *)
revalidate_information_node_adopting(st, resp, merged) ==
    IF RevalidationCapReached(st) THEN ProceedToRetrieval(st)
    ELSE IF resp = Raised THEN [st EXCEPT !.has_sufficient_info = TRUE]
    ELSE IF resp.info_needed_list # <<>>
    THEN [ResumeGathering(st, merged) EXCEPT
             !.info_collected = Update(st.info_collected, resp.info_collected),
             !.user_intent = resp.user_intent]
    ELSE ProceedToRetrieval(st)

(* mutant: a failed re-analysis reopens gathering *)
revalidate_information_node_m(st, resp, merged) ==
    IF RevalidationCapReached(st) THEN ProceedToRetrieval(st)
    ELSE IF resp = Raised THEN ResumeGathering(st, merged)
    ELSE IF resp.info_needed_list # <<>> THEN ResumeGathering(st, merged)
    ELSE ProceedToRetrieval(st)

(* revalidate_information_node; resp is the re-analysis (Raised: an        *)
(* exception inside the try block), merged the list line 200 builds        *)
revalidate_information_node(st, resp, merged) ==
    IF RevalidationCapReached(st) THEN ProceedToRetrieval(st)
    ELSE IF resp = Raised THEN [st EXCEPT !.has_sufficient_info = TRUE]
    ELSE IF resp.info_needed_list # <<>> THEN ResumeGathering(st, merged)
    ELSE ProceedToRetrieval(st)

(* mutant: sufficiency tested before the clarification flag *)
route_after_analysis_m(st) ==
    IF st.has_sufficient_info \/ st.info_needed_list = <<>> THEN "retrieve"
    ELSE IF st.needs_clarification THEN "clarify"
    ELSE "gather_info"

route_after_analysis(st) ==
    IF st.needs_clarification THEN "clarify"
    ELSE IF st.has_sufficient_info \/ st.info_needed_list = <<>> THEN "retrieve"
    ELSE "gather_info"

(* mutant: a completed gathering goes straight to retrieval *)
route_after_gathering_m(st) ==
    IF st.needs_more_info THEN "ask_question" ELSE "retrieve"

route_after_gathering(st) ==
    IF st.needs_more_info THEN "ask_question"
    ELSE IF st.revalidation_mode THEN "revalidate"
    ELSE "retrieve"

route_after_revalidation(st) ==
    IF st.has_sufficient_info THEN "retrieve" ELSE "gather_info"

format_clarification_response(st) ==
    [st EXCEPT !.response = ClarificationText, !.message_type = "clarification"]

format_follow_up_response(st) ==
    [st EXCEPT !.response = st.follow_up_question,
               !.message_type = "information_gathering"]

(* mutant: a failing generator leaves the response empty *)
generate_response_m(st, llm) ==
    IF ~st.retrieved_chunks THEN [st EXCEPT !.response = NoChunksText]
    ELSE IF llm = Raise THEN st
    ELSE [st EXCEPT !.response = AdviceText]

(* generate_response: without chunks no LLM call is made *)
generate_response(st, llm) ==
    IF ~st.retrieved_chunks THEN [st EXCEPT !.response = NoChunksText]
    ELSE IF llm = Raise THEN [st EXCEPT !.response = GenerationErrorText]
    ELSE [st EXCEPT !.response = AdviceText]

----------------------------------------------------------------------------
(* chat_stream, load_history and save_history (main.py)                    *)

Human(text) == [role |-> "HumanMessage", content |-> text]

AI(text) == [role |-> "AIMessage", content |-> text]

(* save_history, lines 145-157: the fields of the state that are written *)
Snapshot(st) ==
    [ user_intent |-> st.user_intent,
      in_gathering_phase |-> st.in_gathering_phase,
      info_collected |-> st.info_collected,
      info_needed_list |-> st.info_needed_list,
      gathering_step |-> st.gathering_step,
      analysis_complete |-> st.analysis_complete,
      has_sufficient_info |-> st.has_sufficient_info,
      current_question_target |-> st.current_question_target,
      message_type |-> st.message_type ]

(* load_history of a session without a file returns ([], {}); the          *)
(* previous_state.get defaults of chat_stream give this snapshot           *)
EmptySnapshot ==
    [ user_intent |-> None,
      in_gathering_phase |-> FALSE,
      info_collected |-> EmptyInfo,
      info_needed_list |-> <<>>,
      gathering_step |-> 0,
      analysis_complete |-> FALSE,
      has_sufficient_info |-> FALSE,
      current_question_target |-> None,
      message_type |-> None ]

NoHistory == [messages |-> <<>>, state |-> EmptySnapshot]

save_history(msgs, st) == [messages |-> msgs, state |-> Snapshot(st)]

(* mutant: has_sufficient_info is not restored from the saved state *)
InitialState_m(query, msgs, previous_state) ==
    [ query |-> query,
      root_query |-> Absent,
      user_intent |-> previous_state.user_intent,
      analysis_complete |-> previous_state.analysis_complete,
      needs_clarification |-> FALSE,
      in_gathering_phase |-> previous_state.in_gathering_phase,
      has_sufficient_info |-> FALSE,
      info_collected |-> previous_state.info_collected,
      info_needed_list |-> previous_state.info_needed_list,
      needs_more_info |-> FALSE,
      follow_up_question |-> None,
      gathering_step |-> previous_state.gathering_step,
      current_question_target |-> previous_state.current_question_target,
      revalidation_mode |-> FALSE,
      revalidation_count |-> 0,
      is_update |-> FALSE,
      retrieved_chunks |-> FALSE,
      response |-> "",
      message_type |-> None ]

(* chat_stream, lines 289-315: the state handed to the graph.  Keys the    *)
(* dict does not hold (root_query, revalidation_mode, revalidation_count,  *)
(* is_update) read as their state.get defaults in the nodes.               *)
InitialState(query, msgs, previous_state) ==
    [ query |-> query,
      root_query |-> Absent,
      user_intent |-> previous_state.user_intent,
      analysis_complete |-> previous_state.analysis_complete,
      needs_clarification |-> FALSE,
      in_gathering_phase |-> previous_state.in_gathering_phase,
      has_sufficient_info |-> previous_state.has_sufficient_info,
      info_collected |-> previous_state.info_collected,
      info_needed_list |-> previous_state.info_needed_list,
      needs_more_info |-> FALSE,
      follow_up_question |-> None,
      gathering_step |-> previous_state.gathering_step,
      current_question_target |-> previous_state.current_question_target,
      revalidation_mode |-> FALSE,
      revalidation_count |-> 0,
      is_update |-> FALSE,
      retrieved_chunks |-> FALSE,
      response |-> "",
      message_type |-> None ]

----------------------------------------------------------------------------
(* Several requests in flight (main.py).  chat_stream is a coroutine: the  *)
(* block from load_history to the building of the state runs without an    *)
(* await, the traversal of the graph is awaited, and the block that        *)
(* appends the reply and calls save_history runs without an await again.   *)

Requests == 1..2

(* query_request.query of each request *)
RequestTexts == <<"I want a divorce", "I am the wife">>

(* query_request.conversation_id when the caller sends one *)
GivenIds == {"conv_a", "conv_b"}

(* f"conv_{datetime.now().strftime('%Y%m%d_%H%M%S')}" at second now *)
ClockIds == << "conv_20240101_000000", "conv_20240101_000001",
               "conv_20240101_000002", "conv_20240101_000003",
               "conv_20240101_000004" >>

ConversationIds == GivenIds \cup Range(ClockIds)

(* chat_stream, line 278 *)
conversation_id_of(given, clock) == IF given # None THEN given ELSE ClockIds[clock + 1]

(* load_history: a conversation without a file loads as ([], {}) *)
NoFiles == [c \in ConversationIds |-> NoHistory]

NotArrived ==
    [ pc |-> "new", given |-> None, conversation_id |-> None, query |-> "",
      messages |-> <<>>, state |-> InitialState("", <<>>, EmptySnapshot),
      accumulated_response |-> "" ]

(* no helper function is being called *)
NoCall == [pc |-> "none"]

----------------------------------------------------------------------------
(* The state machine *)

Init ==
    /\ history = NoHistory
    /\ messages = <<>>
    /\ state = InitialState("", <<>>, EmptySnapshot)
    /\ pc = "idle"
    /\ trace = <<>>
    /\ response = NoResponse
    /\ additional_info_needed = <<>>
    /\ accumulated_response = ""
    /\ turn = 0
    /\ reopened = 0
    /\ faults = 0
    /\ asked = <<>>
    /\ files = NoFiles
    /\ requests = [r \in Requests |-> NotArrived]
    /\ now = 0
    /\ call = NoCall

(* one executed node in the record of the traversal.  reply is the         *)
(* position among the user messages of the message a gathering step handed *)
(* to the extractor (0: none), target the key it was to be extracted for,  *)
(* appended whether the step added that message to additional_info.        *)
Step(node, error) ==
    [ node |-> node, error |-> error, is_update |-> FALSE,
      reply |-> 0, target |-> None, appended |-> FALSE ]

(* a backend may fail while the session's budget of failures lasts *)
Fails(outcomes) == Cardinality({i \in DOMAIN outcomes : outcomes[i] = Raise})

MayFail(outcomes) == faults + Fails(outcomes) <= MaxFaults

(* a request arrives: load_history, append the user message, build the state *)
ChatStream ==
    /\ pc = "idle"
    /\ turn < MaxTurns
    /\ \E text \in UserTexts(turn + 1) :
         /\ messages' = Append(history.messages, Human(text))
         /\ state' = InitialState(text, messages', history.state)
    /\ pc' = "preprocess"
    /\ trace' = <<>>
    /\ response' = NoResponse
    /\ additional_info_needed' = <<>>
    /\ accumulated_response' = ""
    /\ turn' = turn + 1
    /\ UNCHANGED << call, files, requests, now, history, reopened, faults, asked >>

(* an exception that leaves the graph: chat_stream reports an error and    *)
(* saves nothing                                                           *)
AbortRequest ==
    /\ pc' = "idle"
    /\ UNCHANGED << call, files, requests, now, history, messages, state, response, additional_info_needed,
                    accumulated_response, turn, reopened, asked >>

(* preprocess_user_message.  intent_type is the class the update-intent    *)
(* classifier gives the message of this request; the step records whether  *)
(* it is one of the two update classes.                                    *)
Preprocess ==
    /\ pc = "preprocess"
    /\ \E ctor \in {"ok", Raise}, intent_type \in IntentTypes :
         /\ trace' = Append(trace, [ Step("preprocess", FALSE) EXCEPT
                                        !.is_update = IsUpdateIntent(intent_type) ])
         /\ MayFail(<<ctor>>)
         /\ faults' = faults + Fails(<<ctor>>)
         /\ IF ctor = Raise
            THEN AbortRequest
            ELSE /\ state' = handle_update(state, messages, intent_type)
                 /\ pc' = "analyze_query"
                 /\ UNCHANGED << call, files, requests, now, history, messages, response, additional_info_needed,
                                 accumulated_response, turn, reopened, asked >>

AnalyzeQuery ==
    /\ pc = "analyze_query"
    /\ \E resp \in AnalyzerResponses \cup {Raised} :
         LET failed == ~AnalysisSkipped(state) /\ resp = Raised
         IN  /\ MayFail(<<IF failed THEN Raise ELSE "ok">>)
             /\ faults' = faults + (IF failed THEN 1 ELSE 0)
             /\ state' = analyze_query_node(state, resp)
             /\ response' = IF AnalysisSkipped(state) \/ failed THEN NoResponse ELSE resp
             /\ trace' = Append(trace, Step("analyze_query", failed))
    /\ pc' = route_after_analysis(state')
    /\ UNCHANGED << call, files, requests, now, history, messages, additional_info_needed, accumulated_response,
                    turn, reopened, asked >>

Clarify ==
    /\ pc = "clarify"
    /\ state' = format_clarification_response(state)
    /\ accumulated_response' = state'.response
    /\ trace' = Append(trace, Step("clarify", FALSE))
    /\ pc' = "END"
    /\ UNCHANGED << call, files, requests, now, history, messages, response, additional_info_needed,
                    turn, reopened, faults, asked >>

(* the extraction backend is called in this gathering step; a backend     *)
(* that is not called draws no outcome                                    *)
ExtractorReached(st, msgs) ==
    /\ ExtractionAttempted(st, msgs)
    /\ ExtractorCallsLLM(st.follow_up_question,
                         last_user_msg(st, msgs).content, current_target(st))

GatherInfo ==
    /\ pc = "gather_info"
    /\ \E ctor \in {"ok", Raise}, e_llm \in ExtractorOutcomes, q_llm \in QuestionOutcomes :
         LET g == IF ctor = Raise THEN Raised
                  ELSE gather_next_information(state, messages, e_llm, q_llm)
         IN  /\ ctor = Raise => e_llm = "2020" /\ q_llm = "ok"
             /\ ~ExtractorReached(state, messages) => e_llm = "2020"
             /\ (g.raised \/ ~g.needs_more_info) => q_llm = "ok"
             /\ MayFail(<<ctor, e_llm, q_llm>>)
             /\ faults' = faults + Fails(<<ctor, e_llm, q_llm>>)
             /\ state' = gather_information_node(state, g)
             /\ trace' = Append(trace,
                    IF ctor # Raise /\ ExtractionAttempted(state, messages)
                    THEN [ Step("gather_info", g.raised) EXCEPT
                             !.reply = state.gathering_step + 1,
                             !.target = current_target(state),
                             !.appended = extracted(state, messages, e_llm)
                                             \in {"", NOT_PROVIDED} ]
                    ELSE Step("gather_info", g.raised))
    /\ pc' = route_after_gathering(state')
    /\ UNCHANGED << call, files, requests, now, history, messages, response, additional_info_needed,
                    accumulated_response, turn, reopened, asked >>

AskQuestion ==
    /\ pc = "ask_question"
    /\ state' = format_follow_up_response(state)
    /\ accumulated_response' = state'.response
    /\ trace' = Append(trace, Step("ask_question", FALSE))
    /\ pc' = "END"
    /\ UNCHANGED << call, files, requests, now, history, messages, response, additional_info_needed,
                    turn, reopened, faults, asked >>

Revalidate ==
    /\ pc = "revalidate"
    /\ \E resp \in AnalyzerResponses \cup {Raised} :
         LET failed == ~RevalidationCapReached(state) /\ resp = Raised
             additional == IF resp = Raised \/ RevalidationCapReached(state)
                           THEN <<>> ELSE resp.info_needed_list
         IN  /\ MayFail(<<IF failed THEN Raise ELSE "ok">>)
             /\ faults' = faults + (IF failed THEN 1 ELSE 0)
             /\ \E merged \in MergedLists(state.info_needed_list, additional) :
                    state' = revalidate_information_node(state, resp, merged)
             /\ additional_info_needed' = additional
             /\ trace' = Append(trace, Step("revalidate", failed))
    /\ reopened' = IF state'.revalidation_count > state.revalidation_count
                   THEN reopened + 1 ELSE reopened
    /\ pc' = route_after_revalidation(state')
    /\ UNCHANGED << call, files, requests, now, history, messages, response, accumulated_response, turn, asked >>

Retrieve ==
    /\ pc = "retrieve"
    /\ trace' = Append(trace, Step("retrieve", FALSE))
    /\ \E store \in RetrieverOutcomes :
         /\ MayFail(<<store>>)
         /\ faults' = faults + Fails(<<store>>)
         /\ IF store = Raise
            THEN AbortRequest
            ELSE /\ state' = [state EXCEPT !.retrieved_chunks = (store = "chunks")]
                 /\ pc' = "generate"
                 /\ UNCHANGED << call, files, requests, now, history, messages, response, additional_info_needed,
                                 accumulated_response, turn, reopened, asked >>

Generate ==
    /\ pc = "generate"
    /\ \E llm \in GeneratorOutcomes :
         LET failed == state.retrieved_chunks /\ llm = Raise
         IN  /\ MayFail(<<IF failed THEN Raise ELSE "ok">>)
             /\ faults' = faults + (IF failed THEN 1 ELSE 0)
             /\ state' = generate_response(state, llm)
             /\ accumulated_response' =
                   IF state.retrieved_chunks /\ llm # Raise THEN state'.response ELSE ""
    /\ trace' = Append(trace, Step("generate", FALSE))
    /\ pc' = "END"
    /\ UNCHANGED << call, files, requests, now, history, messages, response, additional_info_needed,
                    turn, reopened, asked >>

(* chat_stream, lines 379-387: record the reply and save the history *)
SaveTurn ==
    /\ pc = "END"
    /\ messages' = IF accumulated_response # ""
                   THEN Append(messages, AI(accumulated_response)) ELSE messages
    /\ history' = save_history(messages', state)
    /\ asked' = Append(asked, IF state.message_type = "information_gathering"
                              THEN state.current_question_target ELSE None)
    /\ pc' = "idle"
    /\ UNCHANGED << call, files, requests, now, state, trace, response, additional_info_needed,
                    accumulated_response, turn, reopened, faults >>

Next ==
    \/ ChatStream
    \/ Preprocess
    \/ AnalyzeQuery
    \/ Clarify
    \/ GatherInfo
    \/ AskQuestion
    \/ Revalidate
    \/ Retrieve
    \/ Generate
    \/ SaveTurn

Spec == Init /\ [][Next]_vars

----------------------------------------------------------------------------
(* Requests in flight together.  Every backend answers; the analyzer       *)
(* reports a confident intent with or without a missing fact.              *)

session == << history, messages, state, pc, trace, response, additional_info_needed,
              accumulated_response, turn, reopened, faults, asked >>

ConfidentResponses ==
    { resp \in AnalyzerResponses :
        /\ resp.user_intent = "divorce"
        /\ ~resp.has_sufficient_info
        /\ resp.info_collected = EmptyInfo }

(* the re-analysis of a revalidation that finds nothing missing *)
NoGapResponse ==
    [ user_intent |-> "divorce", info_collected |-> EmptyInfo,
      info_needed_list |-> <<>>, has_sufficient_info |-> TRUE ]

(* retrieve -> generate with a store that returns chunks *)
RetrieveAndGenerate(st) ==
    generate_response([st EXCEPT !.retrieved_chunks = TRUE], "ok")

(* one traversal of the graph of create_graph: the final state *)
RunGraph(st, msgs, resp) ==
    LET s1 == analyze_query_node(handle_update(st, msgs, "new_question"), resp)
        r1 == route_after_analysis(s1)
        s2 == gather_information_node(s1, gather_next_information(s1, msgs, "2020", "ok"))
        r2 == route_after_gathering(s2)
        s3 == revalidate_information_node(s2, NoGapResponse, s2.info_needed_list)
    IN  IF r1 = "clarify" THEN format_clarification_response(s1)
        ELSE IF r1 = "retrieve" THEN RetrieveAndGenerate(s1)
        ELSE IF r2 = "ask_question" THEN format_follow_up_response(s2)
        ELSE IF r2 = "revalidate" THEN RetrieveAndGenerate(s3)
        ELSE RetrieveAndGenerate(s2)

(* chat_stream, lines 278-315 *)
Arrive(r) ==
    /\ requests[r].pc = "new"
    /\ \E given \in GivenIds \cup {None} :
         LET conversation_id == conversation_id_of(given, now)
             loaded == files[conversation_id]
             msgs == Append(loaded.messages, Human(RequestTexts[r]))
         IN  requests' = [requests EXCEPT ![r] =
                 [ pc |-> "graph", given |-> given,
                   conversation_id |-> conversation_id,
                   query |-> RequestTexts[r],
                   messages |-> msgs,
                   state |-> InitialState(RequestTexts[r], msgs, loaded.state),
                   accumulated_response |-> "" ]]
    /\ UNCHANGED << session, files, now, call >>

(* chat_stream, lines 328-376: the events of the traversal *)
Traverse(r) ==
    /\ requests[r].pc = "graph"
    /\ \E resp \in ConfidentResponses :
         LET final_state == RunGraph(requests[r].state, requests[r].messages, resp)
         IN  requests' = [requests EXCEPT ![r].pc = "save",
                                          ![r].state = final_state,
                                          ![r].accumulated_response = final_state.response]
    /\ UNCHANGED << session, files, now, call >>

(* chat_stream, lines 379-387 *)
Save(r) ==
    /\ requests[r].pc = "save"
    /\ LET msgs == IF requests[r].accumulated_response # ""
                   THEN Append(requests[r].messages, AI(requests[r].accumulated_response))
                   ELSE requests[r].messages
       IN  /\ files' = [files EXCEPT ![requests[r].conversation_id] =
                            save_history(msgs, requests[r].state)]
           /\ requests' = [requests EXCEPT ![r].pc = "done", ![r].messages = msgs]
    /\ UNCHANGED << session, now, call >>

(* a second passes *)
Tick ==
    /\ now < MaxClock
    /\ now' = now + 1
    /\ UNCHANGED << session, files, requests, call >>

NextRequests ==
    \/ \E r \in Requests : Arrive(r)
    \/ \E r \in Requests : Traverse(r)
    \/ \E r \in Requests : Save(r)
    \/ Tick

SpecRequests == Init /\ [][NextRequests]_vars

----------------------------------------------------------------------------
(* One call of a helper function.                                          *)
(* InformationGatherer._extract_information: every question, reply, target *)
(* key and answer of the extraction backend.                               *)
(* QueryAnalyzer.analyze_query: every query and outcome of the analyzer    *)
(* backend.                                                                *)

CallQuestions == {None, GenderQuestion, "When did you get married?"}

CallAnswers == {"I am the wife", "yes", "2020", " 2020 ", " "}

CallTargets == {"user_gender", "marriage_date"}

LongQuery == "<a query of 31 words that mentions the marriage>"

CallQueries == {"I want a divorce", "I need custody of my child", "hello", LongQuery}

(* the keywords of fallback_analysis that occur in query.lower() *)
KeywordsIn(query) ==
    CASE query = "I want a divorce" -> {"divorce"}
      [] query = "I need custody of my child" -> {"custody", "child"}
      [] query = LongQuery -> {"marriage"}
      [] OTHER -> {}

(* len(query.split()) *)
WordCount(query) ==
    CASE query = "I want a divorce" -> 4
      [] query = "I need custody of my child" -> 6
      [] query = "hello" -> 1
      [] query = LongQuery -> 31
      [] OTHER -> 1

(* the JSON objects the analyzer backend may answer with *)
AnalysisObjects ==
    { [ user_intent |-> "divorce", info_provided |-> EmptyInfo,
        info_needed |-> <<"marriage_date">>, has_sufficient_info |-> FALSE ],
      [ user_intent |-> "divorce", info_provided |-> EmptyInfo,
        info_needed |-> <<"marriage_date">> ],
      [ info_needed |-> <<>> ],
      [ k \in {} |-> None ] }

(* what comes back from self.llm.invoke: a JSON object, text that is not   *)
(* JSON, JSON that is not an object (a list, null), or an exception        *)
AnalyzerBackendOutcomes ==
    { [kind |-> "json", analysis |-> a] : a \in AnalysisObjects }
    \cup { [kind |-> "malformed"], [kind |-> "non_object"], [kind |-> "raise"] }

(* dict.get(k, default) *)
Get(d, k, default) == IF k \in DOMAIN d THEN d[k] ELSE default

(* QueryAnalyzer.fallback_analysis *)
fallback_analysis(query) ==
    LET kw == KeywordsIn(query)
        case_type ==
            IF kw \cap {"violence", "abuse", "beat", "assault", "hit", "threat"} # {}
            THEN "domestic_violence"
            ELSE IF kw \cap {"dowry", "dahej", "demand", "harassment"} # {} THEN "dowry"
            ELSE IF kw \cap {"custody", "children", "child", "visitation"} # {}
            THEN "child_custody"
            ELSE IF kw \cap {"divorce", "separation", "marriage"} # {} THEN "divorce"
            ELSE IF kw \cap {"maintenance", "alimony", "support"} # {} THEN "maintenance"
            ELSE "general"
        info_provided ==
            [ k \in (IF kw \cap {"married", "marriage"} # {}
                     THEN {"marriage_mentioned"} ELSE {})
                    \cup (IF "child" \in kw THEN {"children_mentioned"} ELSE {})
              |-> <<"yes">> ]
        has_sufficient_info == WordCount(query) > 30
        info_needed ==
            IF has_sufficient_info THEN <<>>
            ELSE IF case_type = "divorce"
            THEN <<"marriage_date", "grounds_for_divorce", "children_details">>
            ELSE IF case_type = "domestic_violence"
            THEN <<"current_safety_status", "incident_details",
                   "relationship_to_perpetrator">>
            ELSE IF case_type = "child_custody"
            THEN <<"children_ages", "current_custody_arrangement">>
            ELSE <<"detailed_situation", "timeline_of_events">>
    IN  [ case_type |-> case_type,
          info_collected |-> info_provided,
          info_needed_list |-> info_needed,
          has_sufficient_info |-> has_sufficient_info,
          user_intent |-> "Seeking legal advice" ]

(* mutant: only the JSON parsing error is caught *)
analyze_query_m(query, backend) ==
    IF backend.kind = "json"
    THEN [ info_collected |-> Get(backend.analysis, "info_provided", EmptyInfo),
           info_needed_list |-> Get(backend.analysis, "info_needed", <<>>),
           has_sufficient_info |-> Get(backend.analysis, "has_sufficient_info", FALSE),
           user_intent |-> Get(backend.analysis, "user_intent", "Seeking legal advice") ]
    ELSE IF backend.kind = "malformed" THEN fallback_analysis(query)
    ELSE Raised

(* QueryAnalyzer.analyze_query: json.JSONDecodeError and every other       *)
(* exception of the try block end in fallback_analysis                     *)
analyze_query(query, backend) ==
    IF backend.kind = "json"
    THEN [ info_collected |-> Get(backend.analysis, "info_provided", EmptyInfo),
           info_needed_list |-> Get(backend.analysis, "info_needed", <<>>),
           has_sufficient_info |-> Get(backend.analysis, "has_sufficient_info", FALSE),
           user_intent |-> Get(backend.analysis, "user_intent", "Seeking legal advice") ]
    ELSE fallback_analysis(query)

(* the arguments of a call of gather_next_information: the state and its  *)
(* message list                                                            *)
CallNeededLists ==
    { <<>>, <<"marriage_date">>, <<"user_gender", "marriage_date">>,
      <<"marriage_date", "marriage_date">>, <<"user_gender", "user_gender">> }

CallSteps == 0..2

CallCollected ==
    { EmptyInfo,
      [k \in {"user_gender"} |-> <<"female">>],
      [k \in {"additional_info", "marriage_date"} |->
          IF k = "marriage_date" THEN <<"2019">> ELSE <<"hello">>] }

CallMessages ==
    { <<Human("I want a divorce")>> }
    \cup { <<Human("I want a divorce"), AI(GenderQuestion), Human(reply)>> :
             reply \in {"I am the wife", "yes", "2020"} }

CallStates(msgs) ==
    { [ InitialState(msgs[Len(msgs)].content, msgs, EmptySnapshot) EXCEPT
          !.user_intent = "divorce",
          !.analysis_complete = TRUE,
          !.in_gathering_phase = TRUE,
          !.info_needed_list = needed,
          !.info_collected = collected,
          !.gathering_step = step,
          !.current_question_target = target,
          !.follow_up_question = question ] :
      needed \in CallNeededLists,
      collected \in CallCollected, step \in CallSteps,
      target \in CallTargets \cup {None}, question \in {None, GenderQuestion} }

(* the text argument of _normalize_gender *)
CallTexts ==
    { "I am the wife", "he hit me", "not sure", "female", "male", "wife", "f",
      "maybe", "2020", " 2020 ", "", " " }

(* the facts a re-analysis reports: none, a new value for a key that is    *)
(* collected, a key that is not                                            *)
NodeFindings ==
    { EmptyInfo,
      [k \in {"marriage_date"} |-> <<"2021">>],
      [k \in {"children_details"} |-> <<"two">>] }

(* what QueryAnalyzer.analyze_query hands to a node, Raised when the call  *)
(* leaves the node's try block                                             *)
NodeResponses ==
    { [ user_intent |-> i, info_collected |-> f,
        info_needed_list |-> n, has_sufficient_info |-> b ] :
      i \in {None, "divorce"}, f \in NodeFindings,
      n \in {<<>>, <<"marriage_date">>, <<"children_details">>}, b \in BOOLEAN }
    \cup {Raised}

(* the state on which revalidate runs, as gather_information_node leaves   *)
(* it when the needed list is empty (lines 136-139), and the state on      *)
(* which analyze_query runs after handle_update found an update (lines     *)
(* 173-187 of update_handler.py)                                           *)
NodeStates(node) ==
    { [ InitialState("yes", <<Human("I want a divorce"), AI(GenderQuestion),
                              Human("yes")>>, EmptySnapshot) EXCEPT
          !.user_intent = "divorce",
          !.root_query = "I want a divorce",
          !.info_collected = collected,
          !.gathering_step = 1,
          !.has_sufficient_info = TRUE,
          !.analysis_complete = (node = "revalidate_information_node"),
          !.revalidation_mode = (node = "revalidate_information_node"),
          !.is_update = (node = "analyze_query_node"),
          !.in_gathering_phase = gathering,
          !.info_needed_list = IF gathering THEN <<"marriage_date">> ELSE <<>>,
          !.revalidation_count = count ] :
      collected \in CallCollected \cup {BigInfo},
      gathering \in IF node = "revalidate_information_node" THEN {FALSE} ELSE BOOLEAN,
      count \in IF node = "revalidate_information_node"
                THEN 0..MaxRevalidations ELSE {0} }

PendingCalls ==
    UNION { { [ pc |-> "pending", fn |-> node, state |-> st, resp |-> resp,
                merged |-> <<>>, result |-> st ] :
              st \in NodeStates(node), resp \in NodeResponses } :
            node \in {"analyze_query_node", "revalidate_information_node"} }
    \cup
    { [ pc |-> "pending", fn |-> "_normalize_gender", text |-> t, result |-> None ] :
      t \in CallTexts }
    \cup
    UNION { { [ pc |-> "pending", fn |-> "gather_next_information",
                state |-> st, messages |-> msgs, e_llm |-> e, q_llm |-> q,
                step1 |-> Raised, result |-> Raised, again |-> Raised ] :
              st \in CallStates(msgs), e \in ExtractorOutcomes,
              q \in QuestionOutcomes } :
            msgs \in CallMessages }
    \cup
    { [ pc |-> "pending", fn |-> "_extract_information",
        last_question |-> q, user_response |-> a,
        info_target |-> t, llm |-> o, result |-> None ] :
      q \in CallQuestions, a \in CallAnswers, t \in CallTargets,
      o \in ExtractorOutcomes }
    \cup
    { [ pc |-> "pending", fn |-> "analyze_query",
        query |-> q, backend |-> b, result |-> NoResponse ] :
      q \in CallQueries, b \in AnalyzerBackendOutcomes }

InitCalls ==
    /\ history = NoHistory
    /\ messages = <<>>
    /\ state = InitialState("", <<>>, EmptySnapshot)
    /\ pc = "idle"
    /\ trace = <<>>
    /\ response = NoResponse
    /\ additional_info_needed = <<>>
    /\ accumulated_response = ""
    /\ turn = 0
    /\ reopened = 0
    /\ faults = 0
    /\ asked = <<>>
    /\ files = NoFiles
    /\ requests = [r \in Requests |-> NotArrived]
    /\ now = 0
    /\ call \in PendingCalls

(* the call returns, or the exception leaves it (result Raise) *)
ExtractInformation ==
    /\ call.pc = "pending"
    /\ call.fn = "_extract_information"
    /\ call' = [call EXCEPT
                   !.pc = "returned",
                   !.result = extract_information(call.last_question, call.user_response,
                                                  call.info_target, call.llm)]
    /\ UNCHANGED << session, files, requests, now >>

(* analyze_query returns, or the exception leaves it (result Raised) *)
AnalyzeQueryCall ==
    /\ call.pc = "pending"
    /\ call.fn = "analyze_query"
    /\ call' = [call EXCEPT !.pc = "returned",
                            !.result = analyze_query(call.query, call.backend)]
    /\ UNCHANGED << session, files, requests, now >>

(* gather_next_information reaches STEP 2: step1 holds its info_collected  *)
(* and info_needed_list after STEP 1 (Raised: an exception left STEP 1)    *)
GatherStoreAnswer ==
    /\ call.pc = "pending"
    /\ call.fn = "gather_next_information"
    /\ call' = [call EXCEPT
                   !.pc = "step 2",
                   !.step1 = ExtractStep(call.state, call.messages, call.e_llm)]
    /\ UNCHANGED << session, files, requests, now >>

(* gather_next_information returns (result Raised: an exception leaves it) *)
GatherNextInformation ==
    /\ call.pc = "step 2"
    /\ call.fn = "gather_next_information"
    /\ call' = [call EXCEPT
                   !.pc = "returned",
                   !.result = gather_next_information(call.state, call.messages,
                                                      call.e_llm, call.q_llm)]
    /\ UNCHANGED << session, files, requests, now >>

(* the result is written to the state as gather_information_node writes it *)
(* and gather_next_information is called on that state                     *)
GatherNextInformationAgain ==
    /\ call.pc = "returned"
    /\ call.fn = "gather_next_information"
    /\ LET st == gather_information_node(call.state, call.result)
       IN  call' = [call EXCEPT
                      !.pc = "returned_again",
                      !.again = gather_next_information(st, call.messages,
                                                        call.e_llm, call.q_llm)]
    /\ UNCHANGED << session, files, requests, now >>

(* _normalize_gender returns, or the IndexError leaves it (result Raise) *)
NormalizeGender ==
    /\ call.pc = "pending"
    /\ call.fn = "_normalize_gender"
    /\ call' = [call EXCEPT !.pc = "returned", !.result = normalize_gender(call.text)]
    /\ UNCHANGED << session, files, requests, now >>

(* analyze_query_node returns the state *)
AnalyzeQueryNode ==
    /\ call.pc = "pending"
    /\ call.fn = "analyze_query_node"
    /\ call' = [call EXCEPT !.pc = "returned",
                            !.result = analyze_query_node(call.state, call.resp)]
    /\ UNCHANGED << session, files, requests, now >>

(* revalidate_information_node returns the state; merged is the list line  *)
(* 200 builds                                                              *)
RevalidateInformationNode ==
    /\ call.pc = "pending"
    /\ call.fn = "revalidate_information_node"
    /\ \E merged \in MergedLists(call.state.info_needed_list,
                                  IF call.resp = Raised THEN <<>>
                                  ELSE call.resp.info_needed_list) :
          call' = [call EXCEPT
                     !.pc = "returned",
                     !.merged = merged,
                     !.result = revalidate_information_node(call.state, call.resp,
                                                            merged)]
    /\ UNCHANGED << session, files, requests, now >>

NextCalls ==
    \/ AnalyzeQueryNode
    \/ RevalidateInformationNode
    \/ NormalizeGender
    \/ ExtractInformation
    \/ AnalyzeQueryCall
    \/ GatherStoreAnswer
    \/ GatherNextInformation
    \/ GatherNextInformationAgain

SpecCalls == InitCalls /\ [][NextCalls]_vars

----------------------------------------------------------------------------
(* Properties *)

Nodes(t) == [i \in 1..Len(t) |-> t[i].node]

LastNode == IF trace = <<>> THEN None ELSE trace[Len(trace)].node

LastFailed == trace # <<>> /\ trace[Len(trace)].error

(* C1: every call of gather_next_information that processes a user reply   *)
(* (gathering_step > 0 and info_needed_list non-empty on entry) returns an  *)
(* info_needed_list strictly shorter than the one it was given, or          *)
(* needs_more_info = False; a reply from which nothing is extracted still   *)
(* removes the targeted key.                                                *)
C1_ProgressPerStep ==
    [][ ( /\ pc = "gather_info"
          /\ state.gathering_step > 0
          /\ state.info_needed_list # <<>> )
        => \/ Len(state'.info_needed_list) < Len(state.info_needed_list)
           \/ ~state'.needs_more_info ]_vars

(* C2: gathering always ends, whatever the user replies: no key is the      *)
(* target of the question turn after turn.  A key that was asked about      *)
(* leaves info_needed_list with the reply, so the same key can be the       *)
(* target of consecutive questions only when a revalidation queued it       *)
(* again: a run of n consecutive questions about one key needs n - 1        *)
(* reopenings.                                                              *)
C2_GatheringEnds ==
    \A i, j \in 1..Len(asked) :
        ( /\ i <= j
          /\ asked[i] # None
          /\ \A k \in i..j : asked[k] = asked[i] )
        => j - i + 1 <= 1 + reopened

(* C3: over the whole session revalidation reopens gathering at most 2     *)
(* times in total.                                                          *)
C3_SessionRevalidationBound == reopened <= 2

(* C4: revalidation_count never exceeds 2, and revalidate entered with      *)
(* revalidation_count >= 2 or with at least 10 entries in info_collected    *)
(* sets has_sufficient_info = True and in_gathering_phase = False, does not *)
(* run the analyzer and adds no key to info_needed_list.                    *)
C4_RevalidationCap ==
    [][ /\ state'.revalidation_count <= 2
        /\ ( /\ pc = "revalidate"
             /\ \/ state.revalidation_count >= 2
                \/ Cardinality(DOMAIN state.info_collected) >= 10 )
           => /\ state'.has_sufficient_info
              /\ ~state'.in_gathering_phase
              /\ state'.info_needed_list = state.info_needed_list
              /\ state'.revalidation_count = state.revalidation_count
              /\ additional_info_needed' = <<>>
              /\ ~LastFailed'
              /\ pc' = "retrieve" ]_vars

C4_Witness ==
    /\ LastNode = "revalidate"
    /\ pc = "retrieve"
    /\ state.revalidation_count = 2
    /\ state.has_sufficient_info

(* C5: when the analyzer result of a request has low confidence, the        *)
(* request runs analyze_query -> clarify -> END with message_type           *)
(* clarification, whatever info_needed_list and has_sufficient_info hold;   *)
(* gather_info, retrieve and generate do not run.                           *)
C5_LowConfidenceRouting ==
    (response # NoResponse /\ IsLowConfidence(response))
    => /\ pc \in {"clarify", "END", "idle"}
       /\ Nodes(trace) = IF pc = "clarify"
                         THEN <<"preprocess", "analyze_query">>
                         ELSE <<"preprocess", "analyze_query", "clarify">>
       /\ pc # "clarify" => state.message_type = "clarification"

C5_Witness ==
    /\ pc = "END"
    /\ response # NoResponse
    /\ IsLowConfidence(response)
    /\ response.info_needed_list # <<>>
    /\ response.has_sufficient_info
    /\ state.message_type = "clarification"

(* C6: in_gathering_phase and has_sufficient_info are never both True, in   *)
(* the state a node leaves and in the state saved at the end of a request.  *)
C6_PhaseFlagsExclusive ==
    /\ ~(state.in_gathering_phase /\ state.has_sufficient_info)
    /\ ~(history.state.in_gathering_phase /\ history.state.has_sufficient_info)

(* C7: info_needed_list contains no key that is present in info_collected   *)
(* (no correction reopens a key: is_update stays False).                    *)
C7_NeededDisjointFromCollected ==
    ~state.is_update
    => Range(state.info_needed_list) \cap DOMAIN state.info_collected = {}

(* C8: in the state saved at the end of a request, current_question_target  *)
(* is non-null exactly when the request ended by emitting a gathering       *)
(* question.                                                                *)
C8_TargetIffQuestionPending ==
    (history.state.current_question_target # None)
    <=> (history.state.message_type = "information_gathering")

(* C9: when the gathering controller reports done (needs_more_info = False  *)
(* with info_needed_list empty) the revalidate node runs next, once, before *)
(* retrieve; retrieve never directly follows a completed gathering; a       *)
(* revalidation that finds no gap continues to retrieve.                    *)
C9_RevalidateAfterGathering ==
    [][ /\ ( pc = "gather_info" /\ ~LastFailed' /\ ~state'.needs_more_info )
           => state'.info_needed_list = <<>> /\ pc' = "revalidate"
        /\ ( pc = "gather_info" /\ pc' = "retrieve" ) => LastFailed'
        /\ pc = "revalidate" => pc' \in {"retrieve", "gather_info"}
        /\ ( pc = "revalidate" /\ additional_info_needed' = <<>> )
           => pc' = "retrieve" ]_vars

C9_Witness ==
    /\ pc = "retrieve"
    /\ Len(trace) >= 2
    /\ trace[Len(trace)] = Step("revalidate", FALSE)
    /\ trace[Len(trace) - 1].node = "gather_info"
    /\ ~trace[Len(trace) - 1].error
    /\ state.revalidation_count = 0
    /\ Cardinality(DOMAIN state.info_collected) < 10

(* C10: when the re-analysis returns missing keys and the cap is not        *)
(* reached, after revalidate info_needed_list is the duplicate-free union   *)
(* of its previous content and the returned keys, in_gathering_phase =      *)
(* True, has_sufficient_info = False, revalidation_count is one more and    *)
(* the next node is gather_info; when it returns none, has_sufficient_info  *)
(* = True and the next node is retrieve.                                    *)
C10_RevalidationOutcome ==
    [][ pc = "revalidate"
        => IF additional_info_needed' # <<>>
           THEN /\ NoDuplicates(state'.info_needed_list)
                /\ Range(state'.info_needed_list) =
                      Range(state.info_needed_list) \cup Range(additional_info_needed')
                /\ state'.in_gathering_phase
                /\ ~state'.has_sufficient_info
                /\ state'.revalidation_count = state.revalidation_count + 1
                /\ pc' = "gather_info"
           ELSE /\ state'.has_sufficient_info
                /\ pc' = "retrieve" ]_vars

C10_Witness ==
    /\ LastNode = "revalidate"
    /\ pc = "gather_info"
    /\ additional_info_needed = <<"marriage_date", "marriage_date">>
    /\ state.info_needed_list = <<"marriage_date">>
    /\ state.revalidation_count = 1

(* C11: after an analysis whose result is not low-confidence the next node  *)
(* is retrieve when info_needed_list is empty or has_sufficient_info is     *)
(* True and gather_info otherwise; once retrieve runs, generate runs next,  *)
(* and the request ends after generate.                                     *)
C11_RoutingAfterAnalysis ==
    [][ /\ ( /\ pc = "analyze_query"
             /\ response' # NoResponse
             /\ ~IsLowConfidence(response') )
           => pc' = IF state'.info_needed_list = <<>> \/ state'.has_sufficient_info
                    THEN "retrieve" ELSE "gather_info"
        /\ pc = "retrieve" => pc' = "generate"
        /\ pc = "generate" => pc' = "END" ]_vars

(* C12: a gathering question is a suspend point.  When the gathering        *)
(* controller returns done = false the request emits exactly one question   *)
(* with message_type information_gathering and ends; revalidate, retrieve   *)
(* and generate do not run in that request, and the state saved at its end  *)
(* has in_gathering_phase = True.                                           *)
C12_QuestionSuspends ==
    /\ ( LastNode = "gather_info" /\ ~LastFailed /\ state.needs_more_info )
       => pc = "ask_question"
    /\ "ask_question" \in Range(Nodes(trace))
       => /\ LastNode = "ask_question"
          /\ pc \in {"END", "idle"}
          /\ Cardinality({i \in 1..Len(trace) : trace[i].node = "ask_question"}) = 1
          /\ Range(Nodes(trace)) \cap {"revalidate", "retrieve", "generate"} = {}
          /\ state.message_type = "information_gathering"
          /\ accumulated_response = state.follow_up_question
          /\ pc = "idle" => history.state.in_gathering_phase

(* C13: snapshot round-trip.  The state chat_stream builds at the start of  *)
(* a request has, for root_query, follow_up_question, revalidation_count,   *)
(* user_intent, in_gathering_phase, has_sufficient_info, info_collected,    *)
(* info_needed_list, gathering_step and current_question_target, the values *)
(* the state had at the end of the previous request, which save_history     *)
(* wrote.                                                                   *)
C13_SnapshotRoundTrip ==
    [][ ( /\ pc = "idle"
          /\ pc' = "preprocess"
          /\ LastNode \in {"clarify", "ask_question", "generate"} )
        => /\ state'.root_query = state.root_query
           /\ state'.follow_up_question = state.follow_up_question
           /\ state'.revalidation_count = state.revalidation_count
           /\ state'.user_intent = state.user_intent
           /\ state'.in_gathering_phase = state.in_gathering_phase
           /\ state'.has_sufficient_info = state.has_sufficient_info
           /\ state'.info_collected = state.info_collected
           /\ state'.info_needed_list = state.info_needed_list
           /\ state'.gathering_step = state.gathering_step
           /\ state'.current_question_target = state.current_question_target ]_vars

(* C14: root_query is set once, to the text of the session's first query,   *)
(* and has that value in every later request; the composite query that      *)
(* revalidation hands to the analyzer starts with that first query,         *)
(* followed by the rendering of all info_collected entries.                 *)
C14_RootQueryImmutable ==
    /\ state.root_query # Absent => state.root_query = messages[1].content
    /\ ( pc # "idle" /\ ~Falsy(history.state.user_intent) )
       => state.root_query = messages[1].content
    /\ ( pc = "revalidate" /\ ~RevalidationCapReached(state) )
       => synthetic_query(state) = [ original_query |-> messages[1].content,
                                     info_context |-> state.info_collected ]

(* requests r1 and r2 work on the same history file *)
SameConversation(r1, r2) ==
    /\ r1 # r2
    /\ requests[r1].conversation_id # None
    /\ requests[r1].conversation_id = requests[r2].conversation_id

InFlight(r) == requests[r].pc \in {"graph", "save"}

(* C15: two requests with the same conversation_id are never processed      *)
(* concurrently (their load_history -> traversal -> save_history sequences  *)
(* do not interleave), so after both complete the saved message log holds   *)
(* both user messages and both replies.                                     *)
C15_SameSessionSerialized ==
    \A r1, r2 \in Requests :
        ( SameConversation(r1, r2) /\ requests[r1].given # None )
        => /\ ~(InFlight(r1) /\ InFlight(r2))
           /\ ( requests[r1].pc = "done" /\ requests[r2].pc = "done" )
              => LET log == files[requests[r1].conversation_id].messages
                 IN  /\ Human(RequestTexts[r1]) \in Range(log)
                     /\ Human(RequestTexts[r2]) \in Range(log)
                     /\ Cardinality({i \in 1..Len(log) : log[i].role = "AIMessage"}) = 2

(* r1 and r2 belong to different sessions: different conversation ids      *)
(* were sent, or at least one of them opens a new conversation             *)
DifferentSessions(r1, r2) ==
    /\ r1 # r2
    /\ requests[r1].pc # "new"
    /\ requests[r2].pc # "new"
    /\ requests[r1].given = None \/ requests[r1].given # requests[r2].given

(* C16: sessions are independent.  A request never reads or writes the     *)
(* saved messages or state of another session, for every interleaving;     *)
(* two new conversations started without a conversation_id at the same     *)
(* time get distinct identifiers and separate histories.                   *)
C16_SessionsIndependent ==
    \A r1, r2 \in Requests :
        DifferentSessions(r1, r2)
        => /\ requests[r1].conversation_id # requests[r2].conversation_id
           /\ Human(RequestTexts[r2]) \notin Range(requests[r1].messages)
           /\ Human(RequestTexts[r2]) \notin
                 Range(files[requests[r1].conversation_id].messages)

(* C17 as stated: every exception during answer extraction or question      *)
(* generation, a failure of the LLM backend of either included, leaves the  *)
(* request with has_sufficient_info = True and in_gathering_phase = False   *)
(* and routes it to retrieve instead of asking another question.            *)
C17_AsStated ==
    [][ ( pc = "gather_info" /\ (LastFailed' \/ faults' > faults) )
        => /\ state'.has_sufficient_info
           /\ ~state'.in_gathering_phase
           /\ pc' = "retrieve" ]_vars

(* C17: no exception leaves gather_information_node.  An exception that     *)
(* reaches the node's except branch gives has_sufficient_info = True,       *)
(* in_gathering_phase = False, needs_more_info = False and the next node    *)
(* is retrieve.  A failure of the LLM backend inside _extract_information   *)
(* or _generate_question is recovered there (raw reply, fallback question)  *)
(* and gathering goes on: the next node is ask_question or revalidate.      *)
C17_GatheringFailure ==
    [][ pc = "gather_info"
        => /\ pc' \in {"ask_question", "revalidate", "retrieve"}
           /\ LastFailed'
              => /\ state'.has_sufficient_info
                 /\ ~state'.in_gathering_phase
                 /\ ~state'.needs_more_info
                 /\ pc' = "retrieve"
           /\ ( faults' > faults /\ ~LastFailed' )
              => pc' \in {"ask_question", "revalidate"} ]_vars

C17_Witness ==
    /\ LastNode = "gather_info"
    /\ LastFailed
    /\ pc = "retrieve"
    /\ state.has_sufficient_info
    /\ state.gathering_step > 0

(* C18: revalidation fails open.  An exception inside                       *)
(* revalidate_information_node gives has_sufficient_info = True and the     *)
(* next node is retrieve; the exception does not leave the node and         *)
(* gathering is not reopened.                                               *)
C18_RevalidationFailOpen ==
    [][ ( pc = "revalidate" /\ LastFailed' )
        => /\ state'.has_sufficient_info
           /\ pc' = "retrieve"
           /\ ~state'.in_gathering_phase
           /\ state'.info_needed_list = state.info_needed_list
           /\ state'.revalidation_count = state.revalidation_count
           /\ reopened' = reopened ]_vars

C18_Witness ==
    /\ LastNode = "revalidate"
    /\ LastFailed
    /\ pc = "retrieve"
    /\ state.has_sufficient_info

(* the extraction backend was called and raised *)
ExtractionBackendRaised ==
    /\ call.pc = "returned"
    /\ call.fn = "_extract_information"
    /\ call.llm = Raise
    /\ ExtractorCallsLLM(call.last_question, call.user_response, call.info_target)

C20_AnalysisAlwaysYields ==
    ( call.pc = "returned" /\ call.fn = "analyze_query" )
    => /\ call.result # Raised
       /\ {"user_intent", "info_collected", "info_needed_list", "has_sufficient_info"}
             \subseteq DOMAIN call.result
       /\ call.backend.kind # "json" => call.result = fallback_analysis(call.query)

C20_Witness ==
    /\ call.pc = "returned"
    /\ call.fn = "analyze_query"
    /\ call.backend.kind = "non_object"
    /\ call.query = "I want a divorce"
    /\ call.result.info_needed_list =
          <<"marriage_date", "grounds_for_divorce", "children_details">>
    /\ call.result.user_intent = "Seeking legal advice"

(* the message of the running request is a follow-up that the update-intent *)
(* classifier puts in one of the two update classes                         *)
UpdateMessage ==
    /\ turn >= 2
    /\ trace # <<>>
    /\ trace[1].node = "preprocess"
    /\ trace[1].is_update

(* the analysis body of analyze_query_node ran in the running request *)
AnalysisBodyRan ==
    \E i \in 1..Len(trace) :
        /\ trace[i].node = "analyze_query"
        /\ response # NoResponse \/ trace[i].error

(* C21: update re-entry.  Whenever a follow-up message of an ongoing        *)
(* session is classified as new information or as a correction, the         *)
(* analysis body of analyze_query_node runs again in that request, in       *)
(* whatever phase the session is, and is_update is False at the end of the  *)
(* request.                                                                 *)
C21_UpdateReentry ==
    UpdateMessage
    => /\ pc \notin {"preprocess", "analyze_query", "idle"} => AnalysisBodyRan
       /\ pc = "END" => ~state.is_update

(* gather_next_information was called with an empty info_needed_list *)
CalledWithNothingNeeded ==
    /\ call.fn = "gather_next_information"
    /\ call.pc \in {"returned", "returned_again"}
    /\ call.state.info_needed_list = <<>>

(* C22: idempotent no-op.  gather_next_information called with an empty     *)
(* info_needed_list returns needs_more_info = False with info_collected and *)
(* gathering_step equal to the values passed in, for every value of         *)
(* gathering_step and current_question_target; called again on its result   *)
(* it returns the same result.                                              *)
C22_IdempotentNoOp ==
    CalledWithNothingNeeded
    => /\ ~call.result.raised
       /\ ~call.result.needs_more_info
       /\ call.result.info_collected = call.state.info_collected
       /\ call.result.gathering_step = call.state.gathering_step
       /\ call.pc = "returned_again" => call.again = call.result

C22_Witness ==
    /\ CalledWithNothingNeeded
    /\ call.pc = "returned_again"
    /\ call.state.gathering_step = 2
    /\ call.state.current_question_target = "marriage_date"
    /\ Len(call.messages) = 3
    /\ call.again.gathering_step = 2
    /\ "additional_info" \in DOMAIN call.again.info_collected

FemaleIndicators == {"wife", "woman", "female", "girl", "she", "her"}

MaleIndicators == {"husband", "man", "male", "boy", "he", "him"}

(* C23: gender normalization.  _normalize_gender returns female for any     *)
(* text containing one of wife, woman, female, girl, she, her; male for any *)
(* text containing one of husband, man, male, boy, he, him; and returns     *)
(* every other text unchanged ("I am the wife" -> female, "he hit me" ->    *)
(* male, "not sure" -> "not sure").                                         *)
C23_GenderNormalization ==
    ( call.pc = "returned" /\ call.fn = "_normalize_gender" )
    => call.result = IF WordsIn(call.text) \cap FemaleIndicators # {} THEN "female"
                     ELSE IF WordsIn(call.text) \cap MaleIndicators # {} THEN "male"
                     ELSE call.text

(* the reply recorded for the request that is being saved *)
LastMessage(msgs) == IF msgs = <<>> THEN None ELSE msgs[Len(msgs)]

(* C24: retriever degradation.  Whenever the vector store is unavailable    *)
(* (the connection failed at start-up, or the store fails while a search is *)
(* executed) retrieve_documents returns empty retrieved_chunks instead of   *)
(* raising, so the request proceeds to generate and ends with a response    *)
(* that is persisted.                                                       *)
C24_RetrieverDegradation ==
    [][ /\ pc = "retrieve" => pc' = "generate"
        /\ ( pc = "END" /\ LastNode = "generate" /\ ~state.retrieved_chunks )
           => /\ ~Falsy(state.response)
              /\ LastMessage(history'.messages) = AI(state.response) ]_vars

(* the request that ran last ended in generate with a failed generator *)
GenerationFailed ==
    /\ LastNode = "generate"
    /\ state.response = GenerationErrorText

(* C25: a generation failure keeps the conversation alive.  If the          *)
(* generator LLM call raises, generate_response returns the apology text    *)
(* with the message list unchanged and the request reaches END; the state   *)
(* of the session is persisted; the next user message of the session is     *)
(* accepted and processed from the persisted state, which is the state the  *)
(* session had before the failed generation.                                *)
C25_GenerationFailure ==
    [][ /\ ( pc = "generate" /\ faults' > faults )
           => /\ state'.response = GenerationErrorText
              /\ Snapshot(state') = Snapshot(state)
              /\ messages' = messages
              /\ pc' = "END"
        /\ ( pc = "END" /\ GenerationFailed )
           => /\ pc' = "idle"
              /\ history'.state = Snapshot(state)
              /\ SelectSeq(history'.messages, IsHuman) = SelectSeq(messages, IsHuman)
        /\ ( pc = "idle" /\ GenerationFailed /\ turn < MaxTurns )
           => /\ ENABLED ChatStream
              /\ pc' = "preprocess"
                 => /\ \E text \in Replies :
                        /\ messages' = Append(history.messages, Human(text))
                        /\ state' = InitialState(text, messages', Snapshot(state)) ]_vars

C25_Witness ==
    /\ pc = "idle"
    /\ GenerationFailed
    /\ faults = 1
    /\ history.state = Snapshot(state)
    /\ history.state.analysis_complete

(* number of times node ran in the running request *)
Runs(node) == Cardinality({i \in 1..Len(trace) : trace[i].node = node})

(* C26: empty retrieval is surfaced, once.  When retrieval yields no        *)
(* chunks, retrieval ran exactly once in that request, generate makes no    *)
(* LLM call, and the text delivered to the caller, which is also recorded   *)
(* as the assistant message of the turn, is the fixed                       *)
(* insufficient-information message.                                        *)
C26_EmptyRetrievalSurfaced ==
    [][ /\ ( pc = "generate" /\ ~state.retrieved_chunks )
           => /\ Runs("retrieve") = 1
              /\ faults' = faults
              /\ state'.response = NoChunksText
              /\ accumulated_response' = NoChunksText
        /\ ( pc = "END" /\ LastNode = "generate" /\ ~state.retrieved_chunks )
           => LastMessage(history'.messages) = AI(NoChunksText) ]_vars

(* C27: reply attribution.  In every gathering continuation the user        *)
(* message handed to the extractor is the reply sent in the current         *)
(* request, the latest user message of the log: the position rule           *)
(* user_messages[gathering_step] selects the message that answers the       *)
(* pending question, also in sessions with a clarification turn or a        *)
(* revalidation that reopened gathering.                                    *)
C27_ReplyAttribution ==
    ( pc = "gather_info" /\ ExtractionAttempted(state, messages) )
    => /\ IsHuman(messages[Len(messages)])
       /\ state.gathering_step + 1 = Len(SelectSeq(messages, IsHuman))
       /\ last_user_msg(state, messages).content = state.query

(* the previous request of the session ended by emitting a gathering       *)
(* question, which is the last message of the saved log                    *)
QuestionPending == history.state.message_type = "information_gathering"

(* C28: pending question text.  On every gathering continuation the         *)
(* question text passed to the extractor is exactly the question text that  *)
(* was emitted to the user at the end of the previous request for           *)
(* current_question_target.                                                 *)
C28_PendingQuestionText ==
    ( pc = "gather_info" /\ QuestionPending /\ ExtractionAttempted(state, messages) )
    => /\ LastMessage(history.messages).role = "AIMessage"
       /\ state.follow_up_question = LastMessage(history.messages).content

(* STEP 1 of the call processed a reply: the value _extract_information     *)
(* returned for it                                                          *)
CallExtracted == extracted(call.state, call.messages, call.e_llm)

AnswerProcessed ==
    /\ call.fn = "gather_next_information"
    /\ call.pc = "step 2"
    /\ ExtractionAttempted(call.state, call.messages)
    /\ CallExtracted # Raise

(* the elements of list s other than key, in order *)
Others(s, key) == SelectSeq(s, LAMBDA x : x # key)

(* C29: concrete answer.  When extraction returns a concrete value for the  *)
(* pending target, exactly that key is written in info_collected (for       *)
(* user_gender the normalised value), that key is removed from              *)
(* info_needed_list, and no other key of info_collected and no other        *)
(* element of info_needed_list changes.                                     *)
C29_ConcreteAnswer ==
    ( AnswerProcessed /\ CallExtracted \notin {"", NOT_PROVIDED} )
    => LET target == current_target(call.state)
           before == call.state
           after == call.step1
       IN  /\ DOMAIN after.info_collected = DOMAIN before.info_collected \cup {target}
           /\ after.info_collected[target] =
                 << IF target = "user_gender"
                    THEN normalize_gender(CallExtracted) ELSE CallExtracted >>
           /\ \A k \in DOMAIN before.info_collected \ {target} :
                 after.info_collected[k] = before.info_collected[k]
           /\ target \notin Range(after.info_needed_list)
           /\ Others(after.info_needed_list, target) =
                 Others(before.info_needed_list, target)

(* info_collected.get("additional_info", ""), as lines *)
AdditionalInfo(info_collected) ==
    IF "additional_info" \in DOMAIN info_collected
    THEN info_collected["additional_info"] ELSE <<>>

(* C30: an unanswered reply is kept.  When extraction yields NOT_PROVIDED   *)
(* or an empty value, the raw reply text is appended to the additional_info *)
(* entry of info_collected, after what additional_info already held, and no *)
(* other entry of info_collected is changed.                                *)
C30_UnansweredReplyKept ==
    ( AnswerProcessed /\ CallExtracted \in {"", NOT_PROVIDED} )
    => LET before == call.state.info_collected
           after == call.step1.info_collected
           reply == last_user_msg(call.state, call.messages).content
       IN  /\ DOMAIN after = DOMAIN before \cup {"additional_info"}
           /\ after["additional_info"] = AdditionalInfo(before) \o <<reply>>
           /\ \A k \in DOMAIN before \ {"additional_info"} : after[k] = before[k]

C30_Witness ==
    /\ AnswerProcessed
    /\ CallExtracted = NOT_PROVIDED
    /\ AdditionalInfo(call.state.info_collected) = <<"hello">>
    /\ AdditionalInfo(call.step1.info_collected) = <<"hello", "2020">>
    /\ call.step1.info_collected["marriage_date"] = <<"2019">>

----------------------------------------------------------------------------
(* gather_next_information, lines 162-174: the list after the gender skip *)
AfterGenderSkip(info_collected, info_needed_list) ==
    IF /\ info_needed_list # <<>>
       /\ Head(info_needed_list) = "user_gender"
       /\ "user_gender" \in DOMAIN info_collected
    THEN RemoveFirst(info_needed_list, "user_gender")
    ELSE info_needed_list

(* the step just taken is an execution of node *)
Ran(node) ==
    /\ Len(trace') = Len(trace) + 1
    /\ trace'[Len(trace')].node = node

(* questions emitted in the session: those of the saved turns and the one  *)
(* the running traversal has produced                                      *)
QuestionsAsked ==
    Cardinality({i \in DOMAIN asked : asked[i] # None})
    + (IF pc \in {"ask_question", "END"} /\ state.needs_more_info THEN 1 ELSE 0)

(* one execution of gather_info: the question step of the claim C31 *)
QuestionStepRule ==
    Ran("gather_info") =>
        IF state'.needs_more_info
        THEN /\ \E e_llm \in ExtractorOutcomes :
                  LET s1 == ExtractStep(state, messages, e_llm)
                  IN  /\ ~s1.raised
                      /\ state'.info_collected = s1.info_collected
                      /\ state'.info_needed_list =
                            AfterGenderSkip(s1.info_collected, s1.info_needed_list)
             /\ state'.info_needed_list # <<>>
             /\ state'.current_question_target = Head(state'.info_needed_list)
             /\ state'.gathering_step = state.gathering_step + 1
        ELSE state'.gathering_step = state.gathering_step

(* a node of the graph sets in_gathering_phase: a gathering phase begins *)
PhaseBegins ==
    /\ Ran("analyze_query") \/ Ran("revalidate")
    /\ ~state.in_gathering_phase
    /\ state'.in_gathering_phase

(* C31 as stated: a gathering step that emits a question targets the head  *)
(* of info_needed_list as extraction and the gender skip left it, sets     *)
(* current_question_target to that key and adds exactly 1 to               *)
(* gathering_step; a step that emits no question leaves gathering_step as  *)
(* it was; within a gathering phase gathering_step never decreases and is  *)
(* the number of questions asked in that phase, so it is 0 when a phase    *)
(* begins.                                                                 *)
C31_AsStated ==
    [][ /\ QuestionStepRule
        /\ (state.in_gathering_phase /\ state'.in_gathering_phase)
             => state'.gathering_step >= state.gathering_step
        /\ PhaseBegins => state'.gathering_step = 0
      ]_vars

(* C31: the question step as stated; gathering_step never decreases while  *)
(* the session is gathering and always equals the number of questions      *)
(* emitted since the analysis set it to 0: gathering reopened by a         *)
(* revalidation continues the count.                                       *)
C31_QuestionStep ==
    [][ /\ QuestionStepRule
        /\ (state.in_gathering_phase /\ state'.in_gathering_phase)
             => state'.gathering_step >= state.gathering_step
        /\ state'.gathering_step = QuestionsAsked'
      ]_vars

(* a second question has been emitted, after a step that skipped the       *)
(* gender key, and an earlier step of the session ended without a question *)
C31_Witness ==
    /\ pc = "ask_question"
    /\ state.gathering_step = 2
    /\ state.current_question_target = "marriage_date"
    /\ "user_gender" \in DOMAIN state.info_collected
    /\ Len(asked) = 2

----------------------------------------------------------------------------
(* gather_next_information has returned a result *)
GatherReturned ==
    /\ call.pc \in {"returned", "returned_again"}
    /\ call.fn = "gather_next_information"
    /\ ~call.step1.raised
    /\ ~call.result.raised

(* line 163: STEP 3 finds user_gender at the head of the list and among    *)
(* the collected facts                                                     *)
GenderSkipTaken ==
    /\ GatherReturned
    /\ call.step1.info_needed_list # <<>>
    /\ Head(call.step1.info_needed_list) = "user_gender"
    /\ "user_gender" \in DOMAIN call.step1.info_collected

(* C32: when user_gender heads info_needed_list and is already in          *)
(* info_collected, the call removes it from the list and either reports    *)
(* done, with gathering_step unchanged, or asks about the next key, with   *)
(* gathering_step one higher; no returned question targets user_gender     *)
(* while user_gender is in info_collected.                                 *)
C32_GenderSkip ==
    /\ GenderSkipTaken =>
         LET rest == call.result.info_needed_list
         IN  /\ "user_gender" \notin Range(rest)
             /\ call.result.info_collected = call.step1.info_collected
             /\ IF rest = <<>>
                THEN /\ ~call.result.needs_more_info
                     /\ call.result.gathering_step = call.state.gathering_step
                ELSE /\ call.result.needs_more_info
                     /\ call.result.current_question_target = Head(rest)
                     /\ call.result.gathering_step = call.state.gathering_step + 1
    /\ (GatherReturned /\ call.result.needs_more_info
          /\ call.result.current_question_target = "user_gender")
         => "user_gender" \notin DOMAIN call.result.info_collected

----------------------------------------------------------------------------
(* the traversal of a session after its first analysis: a node that has    *)
(* run, and the save of the turn, keep every key of info_collected         *)
FactsKeptInSession ==
    /\ \A node \in {"analyze_query", "gather_info", "revalidate"} :
         (Ran(node) /\ state.analysis_complete)
            => DOMAIN state.info_collected \subseteq DOMAIN state'.info_collected
    /\ (history' # history /\ history.state.analysis_complete)
         => DOMAIN history.state.info_collected
               \subseteq DOMAIN history'.state.info_collected

(* the call is the analysis of an update and the analyzer has answered *)
UpdateReanalysed ==
    /\ call.pc = "returned"
    /\ call.fn = "analyze_query_node"
    /\ call.state.is_update
    /\ ~AnalysisSkipped(call.state)
    /\ call.resp # Raised

(* one call of a node or of the gatherer: the keys it was given are kept,  *)
(* and the analysis of an update overwrites the keys the analyzer returns  *)
FactsKeptByCall ==
    /\ (call.pc = "returned"
          /\ call.fn \in {"analyze_query_node", "revalidate_information_node"})
         => DOMAIN call.state.info_collected \subseteq DOMAIN call.result.info_collected
    /\ (call.pc = "returned" /\ call.fn = "gather_next_information")
         => DOMAIN call.state.info_collected \subseteq
               DOMAIN gather_information_node(call.state, call.result).info_collected
    /\ UpdateReanalysed =>
         LET before == call.state.info_collected
             new == call.resp.info_collected
             after == call.result.info_collected
         IN  /\ DOMAIN after = DOMAIN before \cup DOMAIN new
             /\ \A k \in DOMAIN new : after[k] = new[k]
             /\ \A k \in DOMAIN before \ DOMAIN new : after[k] = before[k]

----------------------------------------------------------------------------
(* s is what is left of t after keys were taken from its head *)
IsSuffix(s, t) ==
    \E n \in 0..Len(t) : s = SubSeq(t, n + 1, Len(t))

(* C34: info_needed_list never holds the same key twice, whatever the      *)
(* analyzer returns on the initial analysis and on revalidation, and a     *)
(* gathering step takes keys from the head of the list only, in list       *)
(* order.                                                                  *)
C34_NeededListIsQueue ==
    [][ /\ NoDuplicates(state'.info_needed_list)
        /\ Ran("gather_info")
             => IsSuffix(state'.info_needed_list, state.info_needed_list)
      ]_vars

----------------------------------------------------------------------------
(* what gather_next_information can hand to gather_information_node, for   *)
(* every output of the extractor and of the question generator, Raised     *)
(* included                                                                *)
GatherResults(st, msgs) ==
    {Raised} \cup { gather_next_information(st, msgs, e_llm, q_llm) :
                      e_llm \in ExtractorOutcomes, q_llm \in QuestionOutcomes }

(* the node about to run returns for every output of its backend, and the  *)
(* router after it names a node of the graph (graph.py lines 340-378)      *)
NodeReturns ==
    /\ pc = "analyze_query" =>
         \A resp \in AnalyzerResponses \cup {Raised} :
            route_after_analysis(analyze_query_node(state, resp))
               \in {"clarify", "gather_info", "retrieve"}
    /\ pc = "gather_info" =>
         \A g \in GatherResults(state, messages) :
            route_after_gathering(gather_information_node(state, g))
               \in {"ask_question", "revalidate", "retrieve"}
    /\ pc = "revalidate" =>
         \A resp \in AnalyzerResponses \cup {Raised} :
            \A merged \in MergedLists(state.info_needed_list,
                                      IF resp = Raised THEN <<>>
                                      ELSE resp.info_needed_list) :
               route_after_revalidation(revalidate_information_node(state, resp, merged))
                  \in {"retrieve", "gather_info"}

(* the longest traversal: preprocess, analyze_query, gather_info and       *)
(* revalidate three times each, retrieve, generate                         *)
MaxTraversal == 2 * (MaxRevalidations + 1) + 4

----------------------------------------------------------------------------
(* the state after a revalidation with the fields revalidation may write   *)
(* set back to what they were before it                                    *)
OutsideRevalidation(before, after) ==
    [after EXCEPT !.info_needed_list = before.info_needed_list,
                  !.has_sufficient_info = before.has_sufficient_info,
                  !.in_gathering_phase = before.in_gathering_phase,
                  !.needs_more_info = before.needs_more_info,
                  !.revalidation_mode = before.revalidation_mode,
                  !.revalidation_count = before.revalidation_count]

(* revalidate_information_node took before to after *)
RevalidationFrame(before, after) ==
    /\ after.info_collected = before.info_collected
    /\ after.user_intent = before.user_intent
    /\ after.query = before.query
    /\ after.gathering_step = before.gathering_step
    /\ OutsideRevalidation(before, after) = before

RevalidateReturned ==
    /\ call.pc = "returned"
    /\ call.fn = "revalidate_information_node"

(* C36: revalidation does not alter collected data.                        *)
(* revalidate_information_node leaves info_collected, user_intent, query,  *)
(* gathering_step and the message log unchanged, whatever facts and intent *)
(* the re-analysis returns; only info_needed_list, the phase flags         *)
(* (has_sufficient_info, in_gathering_phase, needs_more_info,              *)
(* revalidation_mode) and revalidation_count may change.                   *)
C36_RevalidationFrame ==
    [][ /\ Ran("revalidate")
             => /\ RevalidationFrame(state, state')
                /\ messages' = messages
        /\ RevalidateReturned' => RevalidationFrame(call.state, call'.result)
      ]_vars

(* a re-analysis that returned another intent, another value for a         *)
(* collected fact and a missing key has reopened gathering                 *)
C36_Witness ==
    /\ RevalidateReturned
    /\ call.resp # Raised
    /\ call.resp.user_intent = None
    /\ call.resp.info_collected = [k \in {"marriage_date"} |-> <<"2021">>]
    /\ "marriage_date" \in DOMAIN call.state.info_collected
    /\ call.result.info_collected["marriage_date"] = <<"2019">>
    /\ call.result.user_intent = "divorce"
    /\ call.result.info_needed_list = <<"children_details">>
    /\ call.result.revalidation_count = call.state.revalidation_count + 1

----------------------------------------------------------------------------
(* the gathering steps of the running traversal that handed a user message *)
(* to the extractor                                                        *)
Extractions == {i \in 1..Len(trace) : trace[i].reply # 0}

(* C37: no reply is consumed twice.  In the traversal of a turn, revalidation   *)
(* reopening gathering included, a user message is passed to the extractor *)
(* for at most one target key and is appended to additional_info at most   *)
(* once.                                                                   *)
C37_ReplyConsumedOnce ==
    \A i, j \in Extractions :
       (i < j /\ trace[i].reply = trace[j].reply)
          => /\ trace[i].target = trace[j].target
             /\ ~(trace[i].appended /\ trace[j].appended)


(* the request that begins finds analysis_complete = True in the saved     *)
(* state of the session                                                    *)
AnalysisPersisted == history.state.analysis_complete

(* the step analyze_query_node of the running request *)
AnalyzeStep == pc = "analyze_query" /\ Ran("analyze_query")

(* a new request begins *)
RequestBegins == pc = "idle" /\ pc' = "preprocess"

SufficiencySaved ==
    /\ history.state.has_sufficient_info
    /\ ~history.state.in_gathering_phase

(* s is a prefix of t *)
IsPrefixOf(s, t) == Len(s) <= Len(t) /\ s = SubSeq(t, 1, Len(s))

(* the nodes of a traversal that answers from retrieval *)
AnswerPath == <<"preprocess", "analyze_query", "retrieve", "generate">>

GatherFailed ==
    /\ Ran("gather_info")
    /\ trace'[Len(trace')].error

(* after with the three keys the except branch of gather_information_node  *)
(* assigns put back to their values in before                              *)
OutsideGatherError(before, after) ==
    [after EXCEPT !.has_sufficient_info = before.has_sufficient_info,
                  !.in_gathering_phase = before.in_gathering_phase,
                  !.needs_more_info = before.needs_more_info]

(* C40: state unchanged on gathering error.  When gather_information_node  *)
(* catches an exception raised by the gatherer, info_collected,            *)
(* info_needed_list, gathering_step and current_question_target keep the   *)
(* values they had on entry to the node, also when the failed call had     *)
(* already extracted or appended the reply; has_sufficient_info becomes    *)
(* True, in_gathering_phase and needs_more_info become False, and no       *)
(* other key of the state and no message changes.                          *)
C40_GatherErrorFrame ==
    [][ GatherFailed =>
          /\ state'.info_collected = state.info_collected
          /\ state'.info_needed_list = state.info_needed_list
          /\ state'.gathering_step = state.gathering_step
          /\ state'.current_question_target = state.current_question_target
          /\ state'.has_sufficient_info
          /\ ~state'.in_gathering_phase
          /\ ~state'.needs_more_info
          /\ OutsideGatherError(state, state') = state
          /\ messages' = messages ]_vars

(* the gatherer failed while it extracted the reply to a pending question: *)
(* the question stays pending, the fact stays first in the needed list and *)
(* the question count is kept, while the session is marked sufficient      *)
C40_Witness ==
    /\ LastNode = "gather_info"
    /\ LastFailed
    /\ trace[Len(trace)].reply > 0
    /\ state.gathering_step = trace[Len(trace)].reply - 1
    /\ state.current_question_target = trace[Len(trace)].target
    /\ state.info_needed_list # <<>>
    /\ state.has_sufficient_info
    /\ ~state.in_gathering_phase

====
